---- MODULE Spec2Model ----
(***************************************************************************)
(* SENTINEL-Lambda: the deterministic decision pipelines of the repository *)
(*   - SafetyEngine   (src/src/core/safety_engine.py) with the shared      *)
(*     ContextAnalyzer (src/src/core/context_analyzer.py)                  *)
(*   - GuardianEngine (src/sentinel_core/guardian.py)                      *)
(*   - SafetySupervisor (src/src/core/supervisor.py) and its caller        *)
(*     AIClientManager.safe_completion (src/src/api/clients.py)            *)
(*                                                                         *)
(* Text is a sequence of one-character strings, so that normalisation and  *)
(* pattern search are computed character by character as the code does.    *)
(* Decimal fractions are fixed-point integers; the unit is stated at each  *)
(* definition.                                                             *)
(***************************************************************************)
EXTENDS Integers, Sequences, FiniteSets, TLC

VARIABLES
    engine,          \* SafetyEngine instance: risk_patterns, mitigation_patterns, domain_profiles
    context_engine,  \* ContextAnalyzer singleton: hard_negations, mitigators, aggravators, med_triggers
    pc,              \* position of the caller: "idle", "called", "evaluated", "returned"
    request,         \* the operation called and its arguments
    result,          \* what the call returned or raised, or NoResult
    remembered,      \* an earlier (request, result) pair of the same engine, or NoResult
    guardian,        \* GuardianEngine instance: its attributes once _init_ has run
    audit_log,       \* entries the call in progress appended to audit_logs/session_history.json
    supervisor,      \* the SafetySupervisor made by create_supervisor, or SupervisorNotCreated
    redis_store,     \* the entries under sentinel:audit:* in Redis
    ai_client        \* the AIClientManager singleton: its clients once _init_ has run

vars == <<engine, context_engine, pc, request, result, remembered, guardian, audit_log,
         supervisor, redis_store, ai_client>>

(***************************************************************************)
(* Bounds of the model                                                     *)
(***************************************************************************)
MaxQueryWords == 2
MaxResponseWords == 1
MaxClock == 1
MaxTextLen == 3
MaxFactors == 3
MaxCalls == 2
MaxContextWords == 3

(***************************************************************************)
(* Characters and text                                                     *)
(***************************************************************************)
UpperSeq == <<"A","B","C","D","E","F","G","H","I","J","K","L","M","N","O","P","Q","R","S","T","U","V","W","X","Y","Z">>
LowerSeq == <<"a","b","c","d","e","f","g","h","i","j","k","l","m","n","o","p","q","r","s","t","u","v","w","x","y","z">>
DigitSeq == <<"0","1","2","3","4","5","6","7","8","9">>

Range(s) == {s[i] : i \in DOMAIN s}
UpperSet == Range(UpperSeq)
LowerSet == Range(LowerSeq)
DigitSet == Range(DigitSeq)
SpaceSet == {" ", "\t", "\n"}

\* str.lower() on one character
LowerChar == [c \in UpperSet |-> LowerSeq[CHOOSE i \in DOMAIN UpperSeq : UpperSeq[i] = c]]
str_lower(text) == [i \in DOMAIN text |-> IF text[i] \in UpperSet THEN LowerChar[text[i]] ELSE text[i]]

\* TextNormalizer.normalize: the substitution table
leet_map == [c \in {"!", "@", "$", "3"} |->
               CASE c = "!" -> "i" [] c = "@" -> "a" [] c = "$" -> "s" [] c = "3" -> "e"]
apply_leet(text) == [i \in DOMAIN text |-> IF text[i] \in DOMAIN leet_map THEN leet_map[text[i]] ELSE text[i]]

\* re.sub(r'[^a-z0-9\s%]', '', text)
KeptSet == LowerSet \cup DigitSet \cup SpaceSet \cup {"%"}
KeptChar(c) == c \in KeptSet
strip_disallowed(text) == SelectSeq(text, KeptChar)

\* re.sub(r'\s+', ' ', text).strip(): every run of whitespace becomes one space,
\* leading and trailing whitespace is dropped
collapse_ws(text) ==
    LET n == Len(text)
        FirstOfRun(i) == text[i] \in SpaceSet /\ (i = 1 \/ text[i-1] \notin SpaceSet)
        InnerRun(i) == \E j \in 1..(i-1) : text[j] \notin SpaceSet
        HasLater(i) == \E j \in (i+1)..n : text[j] \notin SpaceSet
        Keep(i) == \/ text[i] \notin SpaceSet
                   \/ FirstOfRun(i) /\ InnerRun(i) /\ HasLater(i)
        idx == SelectSeq([i \in 1..n |-> i], Keep)
    IN [k \in DOMAIN idx |-> IF text[idx[k]] \in SpaceSet THEN " " ELSE text[idx[k]]]

\* normalize with the whitespace collapsed before the other characters are dropped
normalize_collapse_first(text) == strip_disallowed(apply_leet(collapse_ws(str_lower(text))))
normalize(text) == collapse_ws(strip_disallowed(apply_leet(str_lower(text))))

(***************************************************************************)
(* Regular expressions of the source, as sets of literal alternatives with *)
(* optional \b anchors at either end.                                      *)
(***************************************************************************)
WordCharSet == LowerSet \cup UpperSet \cup DigitSet \cup {"_"}
IsWordChar(c) == c \in WordCharSet

\* \b at the gap after position p (0 .. Len(text))
BoundaryAt(text, p) ==
    LET l == p >= 1 /\ IsWordChar(text[p])
        r == p < Len(text) /\ IsWordChar(text[p+1])
    IN l # r

MatchAt(alt, text, i) ==
    /\ text[i] = alt.lit[1]
    /\ \A k \in 2..Len(alt.lit) : text[i+k-1] = alt.lit[k]
    /\ alt.wb => BoundaryAt(text, i-1)
    /\ alt.we => BoundaryAt(text, i + Len(alt.lit) - 1)

\* re.search with a non-empty literal: some position where an alternative matches
re_search(alts, text) ==
    \E alt \in alts : \E i \in 1..(Len(text) - Len(alt.lit) + 1) : MatchAt(alt, text, i)

\* plain substring test: `k in text`
contains(lit, text) == re_search({[lit |-> lit, wb |-> FALSE, we |-> FALSE]}, text)

B(lit) == [lit |-> lit, wb |-> TRUE, we |-> TRUE]   \* \blit\b
P(lit) == [lit |-> lit, wb |-> FALSE, we |-> FALSE] \* lit

(***************************************************************************)
(* Decimal numbers m * 10^-e (m, e naturals), kept normalised so that the  *)
(* products of the noisy-OR stay within 32-bit integers.                   *)
(***************************************************************************)
RECURSIVE Pow10(_)
Pow10(e) == IF e = 0 THEN 1 ELSE 10 * Pow10(e - 1)

RECURSIVE DecNorm(_)
DecNorm(d) == IF d.m = 0 THEN [m |-> 0, e |-> 0]
              ELSE IF d.e > 0 /\ d.m % 10 = 0 THEN DecNorm([m |-> d.m \div 10, e |-> d.e - 1])
              ELSE d
Dec(m, e) == DecNorm([m |-> m, e |-> e])
DecMul(a, b) == Dec(a.m * b.m, a.e + b.e)
DecOne == Dec(1, 0)
\* a <= b, for normalised decimals with mantissas below 10^8
DecLE(a, b) ==
    IF a.m = 0 THEN TRUE
    ELSE IF b.m = 0 THEN FALSE
    ELSE IF a.e >= b.e
         THEN IF a.e - b.e >= 9 THEN TRUE ELSE a.m <= b.m * Pow10(a.e - b.e)
         ELSE IF b.e - a.e >= 9 THEN FALSE ELSE a.m * Pow10(b.e - a.e) <= b.m
DecLT(a, b) == DecLE(a, b) /\ a # b

(***************************************************************************)
(* A risk score s is carried as its complement 1 - s (the code's           *)
(* safety_probability), a decimal in [0, 1].                               *)
(***************************************************************************)
ScoreOfComplement(c) == [comp |-> c]
ScoreZero == ScoreOfComplement(DecOne)
\* a score given in hundredths (0 .. 100)
ScoreOfHundredths(h) == ScoreOfComplement(Dec(100 - h, 2))
\* score >= t, for t in hundredths
ScoreGE(score, t) == DecLE(score.comp, Dec(100 - t, 2))
\* round(score, 3), in thousandths
Round3(score) ==
    LET c == score.comp
    IN IF c.e <= 3 THEN 1000 - c.m * Pow10(3 - c.e)
       ELSE IF c.e - 3 >= 9 THEN 1000
       ELSE LET q == Pow10(c.e - 3)
                lo == c.m \div q
                rem == c.m % q
            IN 1000 - (IF 2 * rem > q THEN lo + 1 ELSE lo)

(***************************************************************************)
(* SafetyEngine.__init__: the pattern tables (weights and multipliers in   *)
(* hundredths)                                                             *)
(***************************************************************************)
RiskCategory == {"MEDICAL_EMERGENCY", "FINANCIAL_SCAM", "HARMFUL_CONTENT", "SELF_HARM"}
PolicyViolation == {"MISSING_ESCALATION", "UNSAFE_ADVICE"}
Decision == {"APPROVE", "ESCALATE", "BLOCK"}

RP(regex, alts, weight, category) ==
    [regex |-> regex, alts |-> alts, weight |-> weight, category |-> category]

risk_patterns_init == <<
    RP("\\bchest pain\\b", {B(<<"c","h","e","s","t"," ","p","a","i","n">>)}, 80, "MEDICAL_EMERGENCY"),
    RP("\\bheart attack\\b", {B(<<"h","e","a","r","t"," ","a","t","t","a","c","k">>)}, 100, "MEDICAL_EMERGENCY"),
    RP("\\bdifficulty breathing\\b", {B(<<"d","i","f","f","i","c","u","l","t","y"," ","b","r","e","a","t","h","i","n","g">>)}, 90, "MEDICAL_EMERGENCY"),
    RP("\\bsuicide\\b", {B(<<"s","u","i","c","i","d","e">>)}, 100, "SELF_HARM"),
    RP("\\bkill myself\\b", {B(<<"k","i","l","l"," ","m","y","s","e","l","f">>)}, 100, "SELF_HARM"),
    RP("1000%", {P(<<"1","0","0","0","%">>)}, 90, "FINANCIAL_SCAM"),
    RP("\\bguaranteed\\b", {B(<<"g","u","a","r","a","n","t","e","e","d">>)}, 80, "FINANCIAL_SCAM"),
    RP("\\brisk free\\b", {B(<<"r","i","s","k"," ","f","r","e","e">>)}, 70, "FINANCIAL_SCAM"),
    RP("\\bmake a b[o0]mb\\b", {B(<<"m","a","k","e"," ","a"," ","b","o","m","b">>), B(<<"m","a","k","e"," ","a"," ","b","0","m","b">>)}, 100, "HARMFUL_CONTENT"),
    RP("\\bpoison\\b", {B(<<"p","o","i","s","o","n">>)}, 90, "HARMFUL_CONTENT") >>

mitigation_patterns_init == <<
    [regex |-> "call 911", alts |-> {P(<<"c","a","l","l"," ","9","1","1">>)}],
    [regex |-> "emergency room", alts |-> {P(<<"e","m","e","r","g","e","n","c","y"," ","r","o","o","m">>)}],
    [regex |-> "seek professional help", alts |-> {P(<<"s","e","e","k"," ","p","r","o","f","e","s","s","i","o","n","a","l"," ","h","e","l","p">>)}],
    [regex |-> "crisis hotline", alts |-> {P(<<"c","r","i","s","i","s"," ","h","o","t","l","i","n","e">>)}],
    [regex |-> "consult a doctor", alts |-> {P(<<"c","o","n","s","u","l","t"," ","a"," ","d","o","c","t","o","r">>)}] >>

\* domain -> (category -> multiplier); a category without an entry is absent
domain_profiles_init ==
    [d \in {"medical", "financial", "general"} |->
        CASE d = "medical" -> [c \in {"MEDICAL_EMERGENCY", "SELF_HARM"} |-> 120]
          [] d = "financial" -> [c \in {"FINANCIAL_SCAM"} |-> 150]
          [] d = "general" -> [c \in {} |-> 100]]

SafetyEngineInit ==
    [risk_patterns |-> risk_patterns_init,
     mitigation_patterns |-> mitigation_patterns_init,
     domain_profiles |-> domain_profiles_init]

(***************************************************************************)
(* ContextAnalyzer.__init__ (weights in hundredths)                        *)
(***************************************************************************)
CP(regex, alts, weight) == [regex |-> regex, alts |-> alts, weight |-> weight]

hard_negations_init == <<
    CP("\\bno (chest )?pain\\b", {B(<<"n","o"," ","p","a","i","n">>), B(<<"n","o"," ","c","h","e","s","t"," ","p","a","i","n">>)}, 0),
    CP("\\bdon'?t have\\b", {B(<<"d","o","n","t"," ","h","a","v","e">>), B(<<"d","o","n","'","t"," ","h","a","v","e">>)}, 0),
    CP("\\bnot (experiencing|feeling)\\b", {B(<<"n","o","t"," ","e","x","p","e","r","i","e","n","c","i","n","g">>), B(<<"n","o","t"," ","f","e","e","l","i","n","g">>)}, 0),
    CP("\\bjust curious\\b", {B(<<"j","u","s","t"," ","c","u","r","i","o","u","s">>)}, 0),
    CP("\\bhypothetical\\b", {B(<<"h","y","p","o","t","h","e","t","i","c","a","l">>)}, 0) >>

mitigators_init == <<
    CP("\\bafter (eating|food|meal|dinner)\\b",
       {B(<<"a","f","t","e","r"," ","e","a","t","i","n","g">>), B(<<"a","f","t","e","r"," ","f","o","o","d">>), B(<<"a","f","t","e","r"," ","m","e","a","l">>), B(<<"a","f","t","e","r"," ","d","i","n","n","e","r">>)}, 50),
    CP("\\bafter (workout|exercise|gym)\\b",
       {B(<<"a","f","t","e","r"," ","w","o","r","k","o","u","t">>), B(<<"a","f","t","e","r"," ","e","x","e","r","c","i","s","e">>), B(<<"a","f","t","e","r"," ","g","y","m">>)}, 30),
    CP("\\bmild\\b", {B(<<"m","i","l","d">>)}, 20),
    CP("\\bchronic\\b", {B(<<"c","h","r","o","n","i","c">>)}, 40),
    CP("\\bused to have\\b", {B(<<"u","s","e","d"," ","t","o"," ","h","a","v","e">>)}, 80),
    CP("\\blast (week|month|year)\\b", {B(<<"l","a","s","t"," ","w","e","e","k">>), B(<<"l","a","s","t"," ","m","o","n","t","h">>), B(<<"l","a","s","t"," ","y","e","a","r">>)}, 60) >>

aggravators_init == <<
    CP("\\b(severe|crushing|stabbing|unbearable)\\b",
       {B(<<"s","e","v","e","r","e">>), B(<<"c","r","u","s","h","i","n","g">>), B(<<"s","t","a","b","b","i","n","g">>), B(<<"u","n","b","e","a","r","a","b","l","e">>)}, 50),
    CP("\\bradiating\\b", {B(<<"r","a","d","i","a","t","i","n","g">>)}, 40),
    CP("\\b(jaw|arm|back) pain\\b", {B(<<"j","a","w"," ","p","a","i","n">>), B(<<"a","r","m"," ","p","a","i","n">>), B(<<"b","a","c","k"," ","p","a","i","n">>)}, 40),
    CP("\\bsweating\\b", {B(<<"s","w","e","a","t","i","n","g">>)}, 30),
    CP("\\bcan'?t breathe\\b", {B(<<"c","a","n","t"," ","b","r","e","a","t","h","e">>), B(<<"c","a","n","'","t"," ","b","r","e","a","t","h","e">>)}, 60),
    CP("\\bpassed out\\b", {B(<<"p","a","s","s","e","d"," ","o","u","t">>)}, 70),
    CP("\\bnow\\b", {B(<<"n","o","w">>)}, 20) >>

med_triggers_init == << <<"p","a","i","n">>, <<"c","h","e","s","t">>, <<"h","e","a","r","t">>, <<"b","r","e","a","t","h">>, <<"d","o","c","t","o","r">>, <<"s","y","m","p","t","o","m">> >>

ContextAnalyzerInit ==
    [hard_negations |-> hard_negations_init,
     mitigators |-> mitigators_init,
     aggravators |-> aggravators_init,
     med_triggers |-> med_triggers_init]

\* ContextResult(): the dataclass defaults, a fresh modifiers list per instance
ContextResult ==
    [is_medical_context |-> FALSE, is_emergency |-> FALSE, confidence |-> 0,
     modifiers |-> <<>>, time_frame |-> "unknown"]

\* the last hard-negation pattern that matches instead of the first
first_negation_last(ce, text) ==
    IF \E i \in DOMAIN ce.hard_negations : re_search(ce.hard_negations[i].alts, text)
    THEN CHOOSE i \in DOMAIN ce.hard_negations :
            /\ re_search(ce.hard_negations[i].alts, text)
            /\ \A j \in (i+1)..Len(ce.hard_negations) : ~re_search(ce.hard_negations[j].alts, text)
    ELSE 0

\* the first hard-negation pattern that matches, 0 when none does
first_negation(ce, text) ==
    IF \E i \in DOMAIN ce.hard_negations : re_search(ce.hard_negations[i].alts, text)
    THEN CHOOSE i \in DOMAIN ce.hard_negations :
            /\ re_search(ce.hard_negations[i].alts, text)
            /\ \A j \in 1..(i-1) : ~re_search(ce.hard_negations[j].alts, text)
    ELSE 0

\* the loop over aggravators, then the loop over mitigators (Step 2)
RECURSIVE apply_aggravators(_, _, _, _)
apply_aggravators(ce, text, i, acc) ==
    IF i > Len(ce.aggravators) THEN acc
    ELSE LET a == ce.aggravators[i]
         IN IF re_search(a.alts, text)
            THEN apply_aggravators(ce, text, i + 1,
                    [acc EXCEPT !.risk_score = @ + a.weight,
                                !.modifiers = Append(@, <<"aggravator", a.regex>>)])
            ELSE apply_aggravators(ce, text, i + 1, acc)

\* `"last" in pattern or "used to" in pattern`, on the pattern's source text
is_historical_pattern(regex) ==
    regex \in {"\\bused to have\\b", "\\blast (week|month|year)\\b"}

RECURSIVE apply_mitigators(_, _, _, _)
apply_mitigators(ce, text, i, acc) ==
    IF i > Len(ce.mitigators) THEN acc
    ELSE LET m == ce.mitigators[i]
         IN IF re_search(m.alts, text)
            THEN apply_mitigators(ce, text, i + 1,
                    [acc EXCEPT !.risk_score = @ - m.weight,
                                !.modifiers = Append(@, <<"mitigator", m.regex>>),
                                !.time_frame = IF is_historical_pattern(m.regex)
                                               THEN "historical" ELSE @])
            ELSE apply_mitigators(ce, text, i + 1, acc)

Min(a, b) == IF a <= b THEN a ELSE b
Max(a, b) == IF a >= b THEN a ELSE b

\* analyze with the hard negation tagged but the scoring steps still run
analyze_no_short_circuit(ce, raw_text) ==
    LET text == str_lower(raw_text)
        r0 == [ContextResult EXCEPT
                 !.is_medical_context = \E k \in DOMAIN ce.med_triggers : contains(ce.med_triggers[k], text)]
        neg == first_negation(ce, text)
        mods0 == IF neg # 0 THEN <<<<"negation", ce.hard_negations[neg].regex>>>> ELSE <<>>
        acc0 == [risk_score |-> 0, modifiers |-> mods0, time_frame |-> r0.time_frame]
        acc1 == apply_aggravators(ce, text, 1, acc0)
        acc2 == apply_mitigators(ce, text, 1, acc1)
        r1 == [r0 EXCEPT !.modifiers = acc2.modifiers, !.time_frame = acc2.time_frame]
    IN IF acc2.risk_score > 30
       THEN [r1 EXCEPT !.is_emergency = TRUE, !.confidence = Min(acc2.risk_score, 100)]
       ELSE [r1 EXCEPT !.is_emergency = FALSE, !.confidence = Max(0, acc2.risk_score + 10)]

\* ContextAnalyzer.analyze
analyze(ce, raw_text) ==
    LET text == str_lower(raw_text)
        r0 == [ContextResult EXCEPT
                 !.is_medical_context = \E k \in DOMAIN ce.med_triggers : contains(ce.med_triggers[k], text)]
        neg == first_negation(ce, text)
    IN IF neg # 0
       THEN [r0 EXCEPT !.is_emergency = FALSE,
                       !.modifiers = Append(@, <<"negation", ce.hard_negations[neg].regex>>)]
       ELSE LET acc0 == [risk_score |-> 0, modifiers |-> r0.modifiers, time_frame |-> r0.time_frame]
                acc1 == apply_aggravators(ce, text, 1, acc0)
                acc2 == apply_mitigators(ce, text, 1, acc1)
                r1 == [r0 EXCEPT !.modifiers = acc2.modifiers, !.time_frame = acc2.time_frame]
            IN IF acc2.risk_score > 30
               THEN [r1 EXCEPT !.is_emergency = TRUE, !.confidence = Min(acc2.risk_score, 100)]
               ELSE [r1 EXCEPT !.is_emergency = FALSE, !.confidence = Max(0, acc2.risk_score + 10)]

(***************************************************************************)
(* SafetyEngine                                                            *)
(***************************************************************************)
\* multipliers.get(category, 1.0), in hundredths
multiplier(multipliers, category) ==
    IF category \in DOMAIN multipliers THEN multipliers[category] ELSE 100

\* the factor with the effective weight capped at 1.0
safety_factor_cap_one(weight, mult) == Dec(10000 - Min(weight * mult, 10000), 4)

\* 1.0 - min(weight * mult, 0.99)
safety_factor(weight, mult) == Dec(10000 - Min(weight * mult, 9900), 4)

\* SafetyEngine._calculate_risk: the loop over risk_patterns
RECURSIVE calculate_risk_loop(_, _, _, _, _, _)
calculate_risk_loop(eng, query, response, multipliers, i, acc) ==
    IF i > Len(eng.risk_patterns) THEN acc
    ELSE LET p == eng.risk_patterns[i]
         IN IF re_search(p.alts, query) \/ re_search(p.alts, response)
            THEN calculate_risk_loop(eng, query, response, multipliers, i + 1,
                    [detected_risks |-> acc.detected_risks \cup {p.category},
                     safety_probability |->
                        DecMul(acc.safety_probability,
                               safety_factor(p.weight, multiplier(multipliers, p.category)))])
            ELSE calculate_risk_loop(eng, query, response, multipliers, i + 1, acc)

calculate_risk(eng, query, response, domain) ==
    LET acc == calculate_risk_loop(eng, query, response, eng.domain_profiles[domain], 1,
                                   [detected_risks |-> {}, safety_probability |-> DecOne])
    IN [risks |-> acc.detected_risks, risk_score |-> ScoreOfComplement(acc.safety_probability)]

\* check_policy with the escalation requirement tied to MEDICAL_EMERGENCY alone
check_policy_medical_only(eng, risks, response) ==
    LET unsafe == \E i \in DOMAIN eng.risk_patterns :
                     /\ eng.risk_patterns[i].category = "HARMFUL_CONTENT"
                     /\ re_search(eng.risk_patterns[i].alts, response)
        v1 == IF unsafe THEN <<"UNSAFE_ADVICE">> ELSE <<>>
    IN IF "MEDICAL_EMERGENCY" \in risks
          /\ ~\E i \in DOMAIN eng.mitigation_patterns : re_search(eng.mitigation_patterns[i].alts, response)
       THEN Append(v1, "MISSING_ESCALATION")
       ELSE v1

\* SafetyEngine._check_policy
has_mitigation(eng, response) ==
    \E i \in DOMAIN eng.mitigation_patterns : re_search(eng.mitigation_patterns[i].alts, response)

check_policy(eng, risks, response) ==
    LET unsafe == \E i \in DOMAIN eng.risk_patterns :
                     /\ eng.risk_patterns[i].category = "HARMFUL_CONTENT"
                     /\ re_search(eng.risk_patterns[i].alts, response)
        v1 == IF unsafe THEN <<"UNSAFE_ADVICE">> ELSE <<>>
    IN IF ("MEDICAL_EMERGENCY" \in risks \/ "SELF_HARM" \in risks) /\ ~has_mitigation(eng, response)
       THEN Append(v1, "MISSING_ESCALATION")
       ELSE v1

\* _make_decision with the high-stakes rule tried before the bans
make_decision_domain_first(score, risks, violations, domain) ==
    IF domain \in {"medical", "financial"} /\ risks # {} THEN "ESCALATE"
    ELSE IF "HARMFUL_CONTENT" \in risks \/ "UNSAFE_ADVICE" \in Range(violations) THEN "BLOCK"
    ELSE IF violations # <<>> THEN "BLOCK"
    ELSE IF ScoreGE(score, 50) THEN "ESCALATE"
    ELSE "APPROVE"

\* _make_decision with the high-stakes rule limited to the medical domain
make_decision_medical_only(score, risks, violations, domain) ==
    IF "HARMFUL_CONTENT" \in risks \/ "UNSAFE_ADVICE" \in Range(violations) THEN "BLOCK"
    ELSE IF violations # <<>> THEN "BLOCK"
    ELSE IF domain = "medical" /\ risks # {} THEN "ESCALATE"
    ELSE IF ScoreGE(score, 50) THEN "ESCALATE"
    ELSE "APPROVE"

\* _make_decision with a strict threshold (score > 0.5)
make_decision_strict_threshold(score, risks, violations, domain) ==
    IF "HARMFUL_CONTENT" \in risks \/ "UNSAFE_ADVICE" \in Range(violations) THEN "BLOCK"
    ELSE IF violations # <<>> THEN "BLOCK"
    ELSE IF domain \in {"medical", "financial"} /\ risks # {} THEN "ESCALATE"
    ELSE IF ScoreGE(score, 50) /\ score # ScoreOfHundredths(50) THEN "ESCALATE"
    ELSE "APPROVE"

\* SafetyEngine._make_decision
make_decision(score, risks, violations, domain) ==
    IF "HARMFUL_CONTENT" \in risks \/ "UNSAFE_ADVICE" \in Range(violations) THEN "BLOCK"
    ELSE IF violations # <<>> THEN "BLOCK"
    ELSE IF domain \in {"medical", "financial"} /\ risks # {} THEN "ESCALATE"
    ELSE IF ScoreGE(score, 50) THEN "ESCALATE"
    ELSE "APPROVE"

\* SafetyEngine._calculate_confidence, in thousandths.  dist = |score - 0.5| is below
\* 0.1 only for a complement strictly between 0.4 and 0.6.
calculate_confidence(score, violations) ==
    LET c == score.comp
        near == DecLT(Dec(4, 1), c) /\ DecLT(c, Dec(6, 1))
        \* 0.2 - dist * 2, rounded to thousandths (near only)
        c1000 == IF c.e <= 3 THEN c.m * Pow10(3 - c.e) ELSE c.m \div Pow10(Min(c.e - 3, 8))
        dist == IF c1000 >= 500 THEN c1000 - 500 ELSE 500 - c1000
        base1 == IF near THEN 1000 - (200 - 2 * dist) ELSE 1000
        base2 == IF violations # <<>> THEN base1 - 100 ELSE base1
    IN Max(base2, 500)

\* SafetyEngine._generate_explanation (risk_str is the set of risk names)
generate_explanation(decision, risks, violations, score) ==
    IF decision = "BLOCK"
    THEN IF violations # <<>> THEN <<"BLOCKED: Policy violation", violations[1]>>
         ELSE <<"BLOCKED: Prohibited content", risks>>
    ELSE IF decision = "ESCALATE" THEN <<"FLAGGED: Risk detected in high-stakes domain", risks>>
    ELSE <<"APPROVED: Content safe.">>

\* the override test of evaluate: not is_emergency, confidence < 0.3 and no
\* "aggravator" in the joined modifier tags
context_overrides(context_result) ==
    /\ ~context_result.is_emergency
    /\ context_result.confidence < 30
    /\ ~\E k \in DOMAIN context_result.modifiers : context_result.modifiers[k][1] = "aggravator"

\* an unknown domain taken for the strictest profile
effective_domain_strictest(eng, domain) == IF domain \notin DOMAIN eng.domain_profiles THEN "medical" ELSE domain

\* the domain the evaluation runs under: an unknown domain is "general"
effective_domain(eng, domain) == IF domain \notin DOMAIN eng.domain_profiles THEN "general" ELSE domain

\* the consultation test with the domains exchanged: only "medical" is consulted
consults_context_medical_only(risks, domain) == "MEDICAL_EMERGENCY" \in risks /\ domain = "medical"

\* the consultation test without the exemption of the medical domain
consults_context_any_domain(risks, domain) == "MEDICAL_EMERGENCY" \in risks

\* the context analyzer is consulted for a MEDICAL_EMERGENCY match outside "medical"
consults_context(risks, domain) == "MEDICAL_EMERGENCY" \in risks /\ domain # "medical"

\* SafetyEngine.evaluate
evaluate(eng, ce, query, response, declared_domain) ==
    LET domain == effective_domain(eng, declared_domain)
        norm_query == normalize(query)
        norm_response == normalize(response)
        calc == calculate_risk(eng, norm_query, norm_response, domain)
        consulted == consults_context(calc.risks, domain)
        context_result == IF consulted THEN analyze(ce, norm_query) ELSE ContextResult
        override == consulted /\ context_overrides(context_result)
        risks == IF override THEN calc.risks \ {"MEDICAL_EMERGENCY"} ELSE calc.risks
        risk_score == IF override THEN ScoreOfHundredths(Max(10, context_result.confidence))
                      ELSE calc.risk_score
        explanation_prefix == IF override THEN <<"CONTEXT OVERRIDE", context_result.modifiers>> ELSE <<>>
        violations == check_policy(eng, risks, norm_response)
        decision == make_decision(risk_score, risks, violations, domain)
        confidence == calculate_confidence(risk_score, violations)
        explanation == generate_explanation(decision, risks, violations, risk_score)
    IN [decision |-> decision,
        risk_score |-> Round3(risk_score),
        detected_risks |-> risks,
        violations |-> violations,
        confidence |-> (confidence + 5) \div 10,
        explanation |-> <<explanation_prefix, explanation>>,
        normalized_query |-> norm_query,
        normalized_response |-> norm_response]

(***************************************************************************)
(* sentinel_core: scorers and GuardianEngine.  Optional values are None or  *)
(* Some(v).  Scores are in thousandths.  Timestamps are not modelled.       *)
(***************************************************************************)
None == <<>>
Some(v) == <<v>>

\* `lit in text` for str operands (the empty string is in every string)
str_in(lit, text) == lit = <<>> \/ contains(lit, text)

\* str.count(word): non-overlapping occurrences, scanning from the left
RECURSIVE count_from(_, _, _)
count_from(word, text, i) ==
    IF i + Len(word) - 1 > Len(text) THEN 0
    ELSE IF SubSeq(text, i, i + Len(word) - 1) = word
         THEN 1 + count_from(word, text, i + Len(word))
         ELSE count_from(word, text, i + 1)
str_count(word, text) == count_from(word, text, 1)

RECURSIVE SumSeq(_)
SumSeq(q) == IF q = <<>> THEN 0 ELSE Head(q) + SumSeq(Tail(q))

\* ConfidenceScorer.calculate
confidence_calculate(hedging_words, response) ==
    IF response = <<>> THEN 0
    ELSE LET response_lower == str_lower(response)
             hedge_count == SumSeq([k \in DOMAIN hedging_words |->
                                       str_count(hedging_words[k], response_lower)])
         IN Max(0, Min(1000, 950 - hedge_count * 100))

\* ConfidenceScorer.explain: the words found, their number, and the reduction
\* the explanation text reports (len(found_words) * 0.1, here in thousandths)
confidence_explain(hedging_words, response) ==
    LET response_lower == str_lower(response)
        found_words == SelectSeq(hedging_words, LAMBDA word : str_in(word, response_lower))
    IN [hedging_words_found |-> found_words,
        hedging_word_count |-> Len(found_words),
        reduction |-> Len(found_words) * 100]

\* set(text.lower().split())
word_set(text) ==
    LET t == str_lower(text)
        n == Len(t)
        starts == {i \in 1..n : t[i] \notin SpaceSet /\ (i = 1 \/ t[i-1] \in SpaceSet)}
        EndOf(i) == CHOOSE j \in i..n :
                       /\ \A k \in i..j : t[k] \notin SpaceSet
                       /\ j = n \/ t[j+1] \in SpaceSet
    IN {SubSeq(t, i, EndOf(i)) : i \in starts}

\* SemanticScorer.simple_similarity, as the fraction intersection / union
simple_similarity(text1, text2) ==
    IF text1 = <<>> \/ text2 = <<>> THEN [num |-> 0, den |-> 1]
    ELSE LET words1 == word_set(text1)
             words2 == word_set(text2)
         IN IF words1 = {} \/ words2 = {} THEN [num |-> 0, den |-> 1]
            ELSE [num |-> Cardinality(words1 \cap words2),
                  den |-> Cardinality(words1 \cup words2)]

\* the loop of SemanticScorer.calculate: the first exemplar of the greatest similarity
RECURSIVE semantic_loop(_, _, _, _)
semantic_loop(safe_responses, response, i, best) ==
    IF i > Len(safe_responses) THEN best
    ELSE LET sr == safe_responses[i]
             similarity == simple_similarity(response, sr)
         IN IF similarity.num * best.similarity.den > best.similarity.num * similarity.den
            THEN semantic_loop(safe_responses, response, i + 1,
                    [similarity |-> similarity,
                     match |-> IF Len(sr) > 50 THEN SubSeq(sr, 1, 50) \o <<".",".",".">> ELSE sr])
            ELSE semantic_loop(safe_responses, response, i + 1, best)

\* SemanticScorer.calculate: the similarity in thousandths and the exemplar
semantic_calculate(safe_responses, response) ==
    IF safe_responses = <<>> THEN [similarity |-> 0, match |-> <<"N","o"," ","s","a","f","e"," ","r","e","s","p","o","n","s","e","s"," ","c","o","n","f","i","g","u","r","e","d">>]
    ELSE LET best == semantic_loop(safe_responses, response, 1,
                                   [similarity |-> [num |-> 0, den |-> 1], match |-> <<>>])
         IN [similarity |-> (2000 * best.similarity.num + best.similarity.den)
                                \div (2 * best.similarity.den),
             match |-> best.match]

safe_responses_init == <<
    <<"C","o","n","s","u","l","t"," ","a"," ","h","e","a","l","t","h","c","a","r","e"," ","p","r","o","f","e","s","s","i","o","n","a","l"," ","f","o","r"," ","m","e","d","i","c","a","l"," ","a","d","v","i","c","e",".">>,
    <<"I","f"," ","y","o","u","'","r","e"," ","e","x","p","e","r","i","e","n","c","i","n","g"," ","s","e","v","e","r","e"," ","s","y","m","p","t","o","m","s",","," ","s","e","e","k"," ","i","m","m","e","d","i","a","t","e"," ","m","e","d","i","c","a","l"," ","a","t","t","e","n","t","i","o","n",".">>,
    <<"T","h","i","s"," ","i","n","f","o","r","m","a","t","i","o","n"," ","i","s"," ","n","o","t"," ","a"," ","s","u","b","s","t","i","t","u","t","e"," ","f","o","r"," ","p","r","o","f","e","s","s","i","o","n","a","l"," ","m","e","d","i","c","a","l"," ","a","d","v","i","c","e",".">> >>

\* The YAML configuration read by _init_ is deployment data; the model runs the
\* engine on these settings, with every arrangement of the rule table.
RuleNames == {"SAFETY_VIOLATION", "HIGH_SEVERITY_NO_ESCALATION", "LOW_CONFIDENCE"}
RuleLists == {q \in UNION {[1..n -> RuleNames] : n \in 0..3} :
                 \A i, j \in DOMAIN q : i # j => q[i] # q[j]}
GuardianConfigs ==
    {[rules |-> [i \in DOMAIN names |-> [name |-> names[i]]],
      emergency_escalation_phrases |-> << <<"c","a","l","l"," ","9","1","1">>, <<"e","m","e","r","g","e","n","c","y"," ","r","o","o","m">> >>,
      hedging_words |-> << <<"m","a","y","b","e">>, <<"m","i","g","h","t">>, <<"p","o","s","s","i","b","l","y">> >>,
      high_risk_indicators |-> << <<"c","h","e","s","t"," ","p","a","i","n">> >>,
      unsafe_patterns |-> << [pattern |-> <<"P","a","i","n","k","i","l","l","e","r","s">>, context |-> <<"t","a","k","e">>,
                              violation |-> "Self-medication advice"] >>]
     : names \in RuleLists}

GuardianUninitialized == [initialized |-> FALSE]

\* the assignments of GuardianEngine._init_: thresholds default to 0.7 and 0.75
\* (here in thousandths) when not configured
guardian_init(config) ==
    [initialized |-> TRUE,
     hedging_words |-> [k \in DOMAIN config.hedging_words |-> str_lower(config.hedging_words[k])],
     safe_responses |-> safe_responses_init,
     confidence_threshold |-> 700,
     similarity_threshold |-> 750,
     rules |-> config.rules,
     emergency_phrases |-> config.emergency_escalation_phrases,
     high_risk_indicators |-> config.high_risk_indicators,
     unsafe_patterns |-> config.unsafe_patterns]

\* GuardianEngine._has_emergency_escalation
has_emergency_escalation(g, response) ==
    LET response_lower == str_lower(response)
    IN \E k \in DOMAIN g.emergency_phrases : str_in(g.emergency_phrases[k], response_lower)

\* GuardianEngine._detect_high_severity
detect_high_severity(g, query) ==
    LET query_lower == str_lower(query)
    IN \E k \in DOMAIN g.high_risk_indicators : str_in(g.high_risk_indicators[k], query_lower)

\* GuardianEngine._check_safety_violation: the first unsafe pattern found, or None
check_safety_violation(g, query, response) ==
    LET response_lower == str_lower(response)
        Hit(k) == /\ str_in(str_lower(g.unsafe_patterns[k].pattern), response_lower)
                  /\ str_in(str_lower(g.unsafe_patterns[k].context), response_lower)
    IN IF \E k \in DOMAIN g.unsafe_patterns : Hit(k)
       THEN LET k == CHOOSE k \in DOMAIN g.unsafe_patterns :
                        Hit(k) /\ \A j \in 1..(k-1) : ~Hit(j)
            IN Some([violation |-> g.unsafe_patterns[k].violation,
                     pattern |-> str_lower(g.unsafe_patterns[k].pattern),
                     context |-> str_lower(g.unsafe_patterns[k].context)])
       ELSE None

GuardianApproved ==
    [decision |-> "APPROVE", reason |-> "PASSED_ALL_CHECKS", counterfactual |-> None]

\* one pass of the loop body: the outcome of a rule whose condition is met, else None
rule_outcome(g, rule, safety_violation, is_high_severity, has_escalation, confidence_score) ==
    IF rule.name = "SAFETY_VIOLATION" /\ safety_violation # None
    THEN Some([decision |-> "BLOCK", reason |-> "SAFETY_VIOLATION",
               counterfactual |-> Some(<<"unsafe pattern", safety_violation[1].pattern>>)])
    ELSE IF rule.name = "HIGH_SEVERITY_NO_ESCALATION" /\ is_high_severity /\ ~has_escalation
    THEN Some([decision |-> "BLOCK", reason |-> "HIGH_RISK_NO_ESCALATION",
               counterfactual |-> Some(<<"emergency referral advice">>)])
    ELSE IF rule.name = "LOW_CONFIDENCE" /\ confidence_score < g.confidence_threshold
    THEN Some([decision |-> "ESCALATE", reason |-> "LOW_CONFIDENCE",
               counterfactual |-> Some(<<"confidence", g.confidence_threshold, confidence_score>>)])
    ELSE None

\* the rule loop without its break statements: the last rule that matches decides
RECURSIVE apply_rules_last_match(_, _, _, _, _, _, _)
apply_rules_last_match(g, i, outcome, safety_violation, is_high_severity, has_escalation, confidence_score) ==
    IF i > Len(g.rules) THEN outcome
    ELSE LET o == rule_outcome(g, g.rules[i], safety_violation, is_high_severity,
                               has_escalation, confidence_score)
         IN apply_rules_last_match(g, i + 1, IF o # None THEN o[1] ELSE outcome,
                                   safety_violation, is_high_severity, has_escalation,
                                   confidence_score)

\* "Apply rules in order": the loop over self.rules, left at the first rule that matches
RECURSIVE apply_rules(_, _, _, _, _, _, _)
apply_rules(g, i, outcome, safety_violation, is_high_severity, has_escalation, confidence_score) ==
    IF i > Len(g.rules) THEN outcome
    ELSE LET o == rule_outcome(g, g.rules[i], safety_violation, is_high_severity,
                               has_escalation, confidence_score)
         IN IF o # None THEN o[1]
            ELSE apply_rules(g, i + 1, outcome, safety_violation, is_high_severity,
                             has_escalation, confidence_score)

\* the response withheld for every decision other than APPROVE
enforce_block_non_approve(decision, ai_response) ==
    IF decision = "APPROVE" THEN Some(ai_response) ELSE None

\* "4. ENFORCE BLOCK DECISION"
enforce_block(decision, ai_response) ==
    IF decision # "BLOCK" THEN Some(ai_response) ELSE None

\* GuardianEngine.evaluate: the audit_data it builds
guardian_evaluate(g, query, ai_response) ==
    LET confidence_score == confidence_calculate(g.hedging_words, ai_response)
        semantic == semantic_calculate(g.safe_responses, ai_response)
        is_high_severity == detect_high_severity(g, query)
        has_escalation == has_emergency_escalation(g, ai_response)
        safety_violation == check_safety_violation(g, query, ai_response)
        outcome == apply_rules(g, 1, GuardianApproved, safety_violation, is_high_severity,
                               has_escalation, confidence_score)
    IN [query |-> query,
        original_ai_response |-> ai_response,
        safe_response |-> enforce_block(outcome.decision, ai_response),
        decision |-> outcome.decision,
        reason |-> outcome.reason,
        scores |-> [confidence |-> confidence_score,
                    semantic_similarity |-> semantic.similarity,
                    closest_safe_match |-> semantic.match],
        checks |-> [is_high_severity |-> is_high_severity,
                    has_emergency_escalation |-> has_escalation,
                    safety_violation |-> safety_violation],
        counterfactual |-> outcome.counterfactual,
        thresholds |-> [confidence_threshold |-> g.confidence_threshold,
                        similarity_threshold |-> g.similarity_threshold]]

(***************************************************************************)
(* src.core.supervisor: SafetySupervisor                                   *)
(***************************************************************************)
RiskLevel == <<"LOW", "MEDIUM", "HIGH", "CRITICAL">>
RiskLevelIndex(level) == CHOOSE i \in DOMAIN RiskLevel : RiskLevel[i] = level
Domain == {"medical", "financial", "legal", "education", "general"}

\* str.strip()
strip(text) ==
    IF \A i \in DOMAIN text : text[i] \in SpaceSet THEN <<>>
    ELSE LET first == CHOOSE i \in DOMAIN text :
                          text[i] \notin SpaceSet /\ \A j \in 1..(i-1) : text[j] \in SpaceSet
             last == CHOOSE i \in DOMAIN text :
                          text[i] \notin SpaceSet /\ \A j \in (i+1)..Len(text) : text[j] \in SpaceSet
         IN SubSeq(text, first, last)

\* SafetyRequest(query=, response=, domain=): the validated request, or the
\* ValidationError of a blank text or of a domain that is no Domain value
SafetyRequest(query, response, domain) ==
    IF strip(query) = <<>> \/ strip(response) = <<>> \/ domain \notin Domain
    THEN [valid |-> FALSE, raised |-> "ValidationError"]
    ELSE [valid |-> TRUE, query |-> strip(query), response |-> strip(response), domain |-> domain]

\* _load_default_rules: base_rules, each pattern as its alternatives in the
\* order the regex tries them
base_rules == <<
    [id |-> "EMERGENCY_001",
     pattern |-> << <<"c","h","e","s","t"," ","p","a","i","n">>, <<"h","e","a","r","t"," ","a","t","t","a","c","k">>, <<"s","t","r","o","k","e">>, <<"s","e","i","z","u","r","e">>, <<"u","n","c","o","n","s","c","i","o","u","s">> >>,
     description |-> "Medical emergency detection",
     domain |-> "medical", risk_level |-> "CRITICAL", action |-> "BLOCK"],
    [id |-> "HARM_001",
     pattern |-> << <<"s","u","i","c","i","d","e">>, <<"k","i","l","l"," ","m","y","s","e","l","f">>, <<"e","n","d"," ","m","y"," ","l","i","f","e">>, <<"s","e","l","f","-","h","a","r","m">> >>,
     description |-> "Self-harm risk detection",
     domain |-> "general", risk_level |-> "CRITICAL", action |-> "ESCALATE"],
    [id |-> "FINANCIAL_001",
     pattern |-> << <<"g","u","a","r","a","n","t","e","e","d"," ","r","e","t","u","r","n","s">>, <<"r","i","s","k","-","f","r","e","e">>, <<"g","e","t"," ","r","i","c","h"," ","q","u","i","c","k">>, <<"i","n","s","i","d","e","r"," ","i","n","f","o","r","m","a","t","i","o","n">> >>,
     description |-> "Financial scam detection",
     domain |-> "financial", risk_level |-> "HIGH", action |-> "BLOCK"],
    [id |-> "LEGAL_001",
     pattern |-> << <<"h","o","w"," ","t","o"," ","m","a","k","e"," ","b","o","m","b">>, <<"h","o","w"," ","t","o"," ","m","a","k","e"," ","e","x","p","l","o","s","i","v","e">>, <<"h","o","w"," ","t","o"," ","m","a","k","e"," ","w","e","a","p","o","n">>,
                    <<"h","o","w"," ","t","o"," ","b","u","i","l","d"," ","b","o","m","b">>, <<"h","o","w"," ","t","o"," ","b","u","i","l","d"," ","e","x","p","l","o","s","i","v","e">>, <<"h","o","w"," ","t","o"," ","b","u","i","l","d"," ","w","e","a","p","o","n">>,
                    <<"i","l","l","e","g","a","l"," ","d","r","u","g","s">> >>,
     description |-> "Illegal activity detection",
     domain |-> "legal", risk_level |-> "CRITICAL", action |-> "BLOCK"],
    [id |-> "PRIVACY_001",
     pattern |-> << <<"s","o","c","i","a","l"," ","s","e","c","u","r","i","t","y">>, <<"c","r","e","d","i","t"," ","c","a","r","d">>, <<"p","a","s","s","w","o","r","d">>, <<"s","e","c","r","e","t"," ","k","e","y">> >>,
     description |-> "Privacy violation detection",
     domain |-> "general", risk_level |-> "HIGH", action |-> "ESCALATE"] >>

RECURSIVE filter_rules(_, _)
filter_rules(rules, domains) ==
    IF rules = <<>> THEN <<>>
    ELSE (IF Head(rules).domain \in domains THEN <<Head(rules)>> ELSE <<>>)
             \o filter_rules(Tail(rules), domains)

\* SafetySupervisor._load_default_rules
load_default_rules(domain) ==
    IF domain # "general" THEN filter_rules(base_rules, {domain, "general"}) ELSE base_rules

SupervisorNotCreated == [created |-> FALSE]

\* SafetySupervisor.__init__ behind create_supervisor; redis_client is set when
\* a redis_url was given and the connection succeeded
\* re.compile(rule.pattern) succeeds: a rule of a rules file whose pattern is no
\* regular expression is written with regex_error instead of alternatives
regex_compiles(rule) == "regex_error" \notin DOMAIN rule

\* SafetySupervisor._init_pattern_matchers: the ids that get a compiled pattern
init_pattern_matchers(rules) ==
    {rules[i].id : i \in {j \in DOMAIN rules : regex_compiles(rules[j])}}

\* SafetySupervisor.__init__ behind create_supervisor; redis_client is set when
\* a redis_url was given and the connection succeeded
supervisor_init(domain, redis_connected) ==
    [created |-> TRUE,
     domain |-> domain,
     rules |-> load_default_rules(domain),
     enum_rules |-> TRUE,
     compiled_patterns |-> init_pattern_matchers(load_default_rules(domain)),
     redis_client |-> redis_connected]

\* SafetySupervisor(domain, redis_url, rules_path) with an existing rules file:
\* _load_rules builds SafetyRule(**rule) from the JSON objects, whose domain and
\* risk_level are plain strings and no Enum members; the rules are not filtered
\* by the supervisor's domain
supervisor_init_rules_path(domain, redis_connected, rules_data) ==
    [created |-> TRUE,
     domain |-> domain,
     rules |-> rules_data,
     enum_rules |-> FALSE,
     compiled_patterns |-> init_pattern_matchers(rules_data),
     redis_client |-> redis_connected]

\* pattern.finditer(text) with re.IGNORECASE: the matches from position i on,
\* leftmost first, the first alternative that fits, not overlapping
RECURSIVE finditer(_, _, _)
finditer(pattern, lower_text, i) ==
    IF i > Len(lower_text) THEN <<>>
    ELSE LET fits == {k \in DOMAIN pattern :
                         /\ i + Len(pattern[k]) - 1 <= Len(lower_text)
                         /\ SubSeq(lower_text, i, i + Len(pattern[k]) - 1) = pattern[k]}
         IN IF fits = {} THEN finditer(pattern, lower_text, i + 1)
            ELSE LET k == CHOOSE k \in fits : \A j \in fits : k <= j
                 IN <<[start |-> i, end |-> i + Len(pattern[k]) - 1]>>
                        \o finditer(pattern, lower_text, i + Len(pattern[k]))

risk_multipliers == [level \in Range(RiskLevel) |->
    CASE level = "LOW" -> 7 [] level = "MEDIUM" -> 8 [] level = "HIGH" -> 9 [] level = "CRITICAL" -> 10]

\* SafetySupervisor._calculate_rule_confidence, in hundredths.  The arithmetic
\* is in ten-thousandths; the doubles at the decimal ties (0.95 * 0.9 = 0.855,
\* 0.955, 0.665, 0.765) lie below the tie, so round(, 2) takes them down.
calculate_rule_confidence(rule, match_count, req) ==
    LET by_count == IF match_count > 1 THEN Min(9500, 8000 + match_count * 500) ELSE 8000
        by_level == (by_count * risk_multipliers[rule.risk_level]) \div 10
        by_domain == IF rule.domain = req.domain THEN Min(10000, by_level + 1000) ELSE by_level
    IN (by_domain + 49) \div 100

\* _check_rule with the context built from rule.domain, which no rule lacks
check_rule_plain_domain(sup, rule, req) ==
    LET text_to_check == req.query \o <<"\n">> \o req.response
        matches == IF rule.id \in sup.compiled_patterns
                   THEN finditer(rule.pattern, str_lower(text_to_check), 1) ELSE <<>>
    IN IF rule.id \notin sup.compiled_patterns THEN None
       ELSE IF matches # <<>>
       THEN Some([rule_id |-> rule.id,
                  description |-> rule.description,
                  risk_level |-> rule.risk_level,
                  confidence |-> calculate_rule_confidence(rule, Len(matches), req),
                  evidence |-> SubSeq(text_to_check, matches[1].start, matches[1].end),
                  context |-> [match_count |-> Len(matches), domain |-> rule.domain]])
       ELSE None

\* SafetySupervisor._check_rule: the RiskFactor of a rule, or None.  A rule
\* without a compiled pattern gives None; building the RiskFactor of a rule whose
\* domain is a plain string raises AttributeError at rule.domain.value, which the
\* except branch turns into None.
check_rule(sup, rule, req) ==
    LET text_to_check == req.query \o <<"\n">> \o req.response
        matches == IF rule.id \in sup.compiled_patterns
                   THEN finditer(rule.pattern, str_lower(text_to_check), 1) ELSE <<>>
    IN IF rule.id \notin sup.compiled_patterns THEN None
       ELSE IF matches # <<>>
       THEN IF ~sup.enum_rules THEN None
            ELSE
            Some([rule_id |-> rule.id,
                  description |-> rule.description,
                  risk_level |-> rule.risk_level,
                  confidence |-> calculate_rule_confidence(rule, Len(matches), req),
                  evidence |-> SubSeq(text_to_check, matches[1].start, matches[1].end),
                  context |-> [match_count |-> Len(matches), domain |-> rule.domain]])
       ELSE None

\* SafetySupervisor._check_all_rules: gather keeps the order of the rules
RECURSIVE check_all_rules(_, _, _)
check_all_rules(sup, rules, req) ==
    IF rules = <<>> THEN <<>>
    ELSE (IF Head(rules).domain \in {req.domain, "general"}
          THEN check_rule(sup, Head(rules), req) ELSE None)
             \o check_all_rules(sup, Tail(rules), req)

confidence_weights == [level \in Range(RiskLevel) |->
    CASE level = "CRITICAL" -> 10 [] level = "HIGH" -> 8 [] level = "MEDIUM" -> 5 [] level = "LOW" -> 2]

\* SafetySupervisor._calculate_confidence, in hundredths.  The quotient is a
\* double: where it stands at a decimal tie, round(, 2) falls on either side
\* of it, and both values are kept.
supervisor_calculate_confidence(risk_factors) ==
    IF risk_factors = <<>> THEN {100}
    ELSE LET total_weight == SumSeq([i \in DOMAIN risk_factors |->
                                        confidence_weights[risk_factors[i].risk_level]])
             weighted_sum == SumSeq([i \in DOMAIN risk_factors |->
                                        risk_factors[i].confidence *
                                        confidence_weights[risk_factors[i].risk_level]])
             quotient == weighted_sum \div total_weight
             rest == weighted_sum % total_weight
         IN IF 2 * rest < total_weight THEN {quotient}
            ELSE IF 2 * rest > total_weight THEN {quotient + 1}
            ELSE {quotient, quotient + 1}

risk_counts(risk_factors, level) ==
    Cardinality({i \in DOMAIN risk_factors : risk_factors[i].risk_level = level})

\* _make_decision with the REVIEW test ahead of the MEDIUM count
supervisor_make_decision_review_first(risk_factors, confidence) ==
    IF risk_factors = <<>> THEN "APPROVE"
    ELSE IF risk_counts(risk_factors, "CRITICAL") > 0 THEN "BLOCK"
    ELSE IF risk_counts(risk_factors, "HIGH") > 1 THEN "BLOCK"
    ELSE IF risk_counts(risk_factors, "HIGH") > 0 /\ confidence < 50 THEN "ESCALATE"
    ELSE IF confidence < 30 THEN "REVIEW"
    ELSE IF risk_counts(risk_factors, "MEDIUM") > 2 THEN "ESCALATE"
    ELSE "APPROVE"

\* SafetySupervisor._make_decision
supervisor_make_decision(risk_factors, confidence) ==
    IF risk_factors = <<>> THEN "APPROVE"
    ELSE IF risk_counts(risk_factors, "CRITICAL") > 0 THEN "BLOCK"
    ELSE IF risk_counts(risk_factors, "HIGH") > 1 THEN "BLOCK"
    ELSE IF risk_counts(risk_factors, "HIGH") > 0 /\ confidence < 50 THEN "ESCALATE"
    ELSE IF risk_counts(risk_factors, "MEDIUM") > 2 THEN "ESCALATE"
    ELSE IF confidence < 30 THEN "REVIEW"
    ELSE "APPROVE"

\* the templates of _generate_counterfactual, each named by its opening sentence
counterfactual_templates ==
    [medical |-> [CRITICAL |-> "I detect discussion of a potential medical emergency.",
                  HIGH |-> "For safety reasons, I cannot provide specific medical advice."],
     financial |-> [CRITICAL |-> "I cannot provide advice on potentially risky financial activities.",
                    HIGH |-> "Investment decisions should be made with professional guidance."],
     general |-> [CRITICAL |-> "For safety reasons, I cannot provide the requested information.",
                  HIGH |-> "I cannot assist with this request due to safety concerns."]]

\* SafetySupervisor._generate_counterfactual
generate_counterfactual(req, risk_factors) ==
    LET highest_risk ==
            CHOOSE i \in DOMAIN risk_factors :
                /\ \A j \in DOMAIN risk_factors :
                      RiskLevelIndex(risk_factors[j].risk_level)
                          <= RiskLevelIndex(risk_factors[i].risk_level)
                /\ \A j \in 1..(i-1) :
                      RiskLevelIndex(risk_factors[j].risk_level)
                          < RiskLevelIndex(risk_factors[i].risk_level)
        domain_template == IF req.domain \in DOMAIN counterfactual_templates
                           THEN counterfactual_templates[req.domain]
                           ELSE counterfactual_templates["general"]
        level == IF risk_factors # <<>> THEN risk_factors[highest_risk].risk_level ELSE "HIGH"
    IN IF level \in DOMAIN domain_template THEN domain_template[level] ELSE domain_template["HIGH"]

\* SafetySupervisor._generate_audit_id: the text that is hashed; the hash itself
\* is taken to be free of collisions
generate_audit_id(query, response, now) ==
    [content |-> query \o <<":">> \o response, now |-> now]

\* AuditTrail.to_dict: the risk factors lose their context
to_dict(audit_trail) ==
    [audit_trail EXCEPT !.risk_factors =
        [i \in DOMAIN audit_trail.risk_factors |->
            [rule_id |-> audit_trail.risk_factors[i].rule_id,
             description |-> audit_trail.risk_factors[i].description,
             risk_level |-> audit_trail.risk_factors[i].risk_level,
             confidence |-> audit_trail.risk_factors[i].confidence,
             evidence |-> audit_trail.risk_factors[i].evidence]]]

\* SafetySupervisor._check_cache: the stored results under the key, none without Redis
check_cache(sup, store, audit_id) ==
    IF ~sup.redis_client THEN {} ELSE {e \in store : e.key = audit_id}

\* SafetySupervisor._cache_result: setex replaces the entry under the key
cache_result(sup, store, audit_id, decision, audit_trail) ==
    IF ~sup.redis_client THEN store
    ELSE {e \in store : e.key # audit_id}
            \cup {[key |-> audit_id, decision |-> decision, audit_trail |-> to_dict(audit_trail)]}

\* what evaluate builds once the overall confidence is known
evaluate_with_confidence(sup, store, req, audit_id, risk_factors, confidence_score) ==
    LET decision == supervisor_make_decision(risk_factors, confidence_score)
        counterfactual == IF decision \in {"BLOCK", "ESCALATE"}
                          THEN Some(generate_counterfactual(req, risk_factors)) ELSE None
        audit_trail == [audit_id |-> audit_id,
                        query |-> req.query,
                        response |-> req.response,
                        domain |-> req.domain,
                        decision |-> decision,
                        risk_factors |-> risk_factors,
                        confidence_score |-> confidence_score,
                        counterfactual |-> counterfactual]
    IN [returned |-> [returned |-> TRUE, decision |-> decision, audit_trail |-> audit_trail],
        store |-> cache_result(sup, store, audit_id, decision, audit_trail)]

\* SafetySupervisor.evaluate read at time `now`: every (return value, cache) it can produce
supervisor_evaluate(sup, store, req, now) ==
    LET audit_id == generate_audit_id(req.query, req.response, now)
        cached_result == check_cache(sup, store, audit_id)
        risk_factors == check_all_rules(sup, sup.rules, req)
    IN IF cached_result # {}
       THEN {[returned |-> [returned |-> TRUE, decision |-> e.decision, audit_trail |-> e.audit_trail],
              store |-> store] : e \in cached_result}
       ELSE {evaluate_with_confidence(sup, store, req, audit_id, risk_factors, c) :
                c \in supervisor_calculate_confidence(risk_factors)}

(***************************************************************************)
(* src.api.clients: AIClientManager                                        *)
(***************************************************************************)
\* the module-level AIClientManager(): _init_ is an ordinary method that the
\* construction does not run, so the object has no clients attribute
AIClientUninitialized == [initialized |-> FALSE]

\* AIClientManager._init_, with the API keys found in the environment
ai_client_init(api_keys) == [initialized |-> TRUE, clients |-> api_keys]

completion_error(error) == [success |-> FALSE, error |-> error, decision |-> "ERROR"]

\* safe_completion up to the completion: the exception it meets, or None.
\* `completion` is what the API returns, None when the API call raises.
completion_failure(ai, model, completion) ==
    IF ~ai.initialized THEN Some("AttributeError")
    ELSE IF ~ \/ "openai" \in ai.clients /\ str_in(<<"g","p","t">>, model)
              \/ "anthropic" \in ai.clients /\ str_in(<<"c","l","a","u","d","e">>, model)
    THEN Some("ValueError")
    ELSE IF completion = None THEN Some("APIError")
    ELSE None

\* "Handle unsafe content" and the return that follows it
completion_result(completion, decision, audit_trail) ==
    IF decision = "BLOCK"
    THEN [success |-> FALSE,
          decision |-> "BLOCKED",
          original_completion |-> completion,
          safe_completion |-> audit_trail.counterfactual,
          risk_factors |-> [i \in DOMAIN audit_trail.risk_factors |->
                               [rule_id |-> audit_trail.risk_factors[i].rule_id,
                                description |-> audit_trail.risk_factors[i].description]],
          audit_id |-> audit_trail.audit_id]
    ELSE [success |-> TRUE,
          completion |-> completion,
          decision |-> decision,
          confidence |-> audit_trail.confidence_score,
          audit_id |-> audit_trail.audit_id]

(***************************************************************************)
(* src.tasks.worker and src.api.server: the entry points above the         *)
(* supervisor                                                              *)
(***************************************************************************)
task_error(error) == [error |-> error, decision |-> "ERROR"]

\* evaluate_safety_task: every dict the task can return.  Domain(domain) and
\* SafetyRequest(...) raise inside the try, as anything else does.
evaluate_safety_task(query, response, domain, now) ==
    IF domain \notin Domain THEN {task_error("ValueError")}
    ELSE LET safety_request == SafetyRequest(query, response, domain)
         IN IF ~safety_request.valid THEN {task_error(safety_request.raised)}
            ELSE {[decision |-> o.returned.decision,
                   audit_id |-> o.returned.audit_trail.audit_id,
                   confidence |-> o.returned.audit_trail.confidence_score,
                   risk_factors |->
                       [i \in DOMAIN o.returned.audit_trail.risk_factors |->
                           [rule_id |-> o.returned.audit_trail.risk_factors[i].rule_id,
                            description |-> o.returned.audit_trail.risk_factors[i].description,
                            risk_level |-> o.returned.audit_trail.risk_factors[i].risk_level]],
                   counterfactual |-> o.returned.audit_trail.counterfactual]
                  : o \in supervisor_evaluate(supervisor_init(domain, FALSE), {},
                                              safety_request, now)}

\* a risk factor read back from the cache is a dict, not a RiskFactor, and
\* `rf.rule_id` raises AttributeError on it
is_risk_factor_object(rf) == "context" \in DOMAIN rf

\* the endpoint evaluate_safety once supervisor.evaluate has returned: the
\* SafetyResponse, or the HTTPException made of whatever was raised
evaluate_safety(decision, audit_trail) ==
    IF \E i \in DOMAIN audit_trail.risk_factors :
           ~is_risk_factor_object(audit_trail.risk_factors[i])
    THEN [raised |-> "HTTPException", status_code |-> 500, error |-> "AttributeError"]
    ELSE [decision |-> decision,
          confidence |-> audit_trail.confidence_score,
          risk_factors |-> [i \in DOMAIN audit_trail.risk_factors |->
                               [rule_id |-> audit_trail.risk_factors[i].rule_id,
                                description |-> audit_trail.risk_factors[i].description,
                                risk_level |-> audit_trail.risk_factors[i].risk_level,
                                confidence |-> audit_trail.risk_factors[i].confidence,
                                evidence |-> audit_trail.risk_factors[i].evidence]],
          audit_id |-> audit_trail.audit_id,
          counterfactual |-> audit_trail.counterfactual]

(***************************************************************************)
(* Inputs: texts are up to MaxQueryWords / MaxResponseWords phrases joined *)
(* by single spaces; the phrases carry capitals, punctuation and the       *)
(* substitutions the normaliser undoes.                                    *)
(***************************************************************************)
QueryPhrases == { <<"N","o"," ","c","h","e","s","t"," ","p","a","i","n">>, <<"c","h","e","s","t"," ","p","a","i","n">>, <<"s","3","v","e","r","e">>, <<"a","f","t","e","r"," ","e","a","t","i","n","g">>,
                  <<"m","@","k","e"," ","a"," ","b","0","m","b">>, <<"k","i","l","l"," ","m","y","s","e","l","f">>, <<"G","u","a","r","a","n","t","e","e","d","?">> }
ResponsePhrases == { <<"H","e","l","l","o">>, <<"C","a","l","l"," ","9","1","1">>, <<"p","o","i","s","o","n">>, <<"h","e","a","r","t"," ","a","t","t","a","c","k">> }
Domains == {"medical", "financial", "general", "legal"}

RECURSIVE Texts(_, _)
Texts(phrases, n) ==
    IF n = 0 THEN {<<>>}
    ELSE LET shorter == Texts(phrases, n - 1)
         IN shorter \cup {IF t = <<>> THEN w ELSE t \o <<" ">> \o w : t \in shorter, w \in phrases}

Queries == Texts(QueryPhrases, MaxQueryWords)
Responses == Texts(ResponsePhrases, MaxResponseWords)

NoResult == [none |-> TRUE]
NoRequest == [op |-> "none"]

(***************************************************************************)
(* The caller of one SafetyEngine (module-level `engine`)                  *)
(***************************************************************************)
\* evaluate with the multiplier looked up by setdefault instead of get: every
\* matched category gains an entry 1.0 in the profile of the domain
engine_after_evaluate_setdefault(eng, query, response, declared_domain) ==
    LET domain == effective_domain(eng, declared_domain)
        old == eng.domain_profiles[domain]
        matched == {eng.risk_patterns[i].category : i \in
                      {j \in DOMAIN eng.risk_patterns :
                          \/ re_search(eng.risk_patterns[j].alts, normalize(query))
                          \/ re_search(eng.risk_patterns[j].alts, normalize(response))}}
    IN [eng EXCEPT !.domain_profiles[domain] =
            [c \in DOMAIN old \cup matched |-> IF c \in DOMAIN old THEN old[c] ELSE 100]]

\* the engine after a call of evaluate: the method and its helpers only read
\* self.risk_patterns, self.mitigation_patterns and self.domain_profiles
engine_after_evaluate(eng, query, response, declared_domain) == eng
\* the shared analyzer after analyze: result is a fresh ContextResult, self is only read
context_engine_after_analyze(ce, text) == ce

InitEngine ==
    /\ engine = SafetyEngineInit
    /\ context_engine = ContextAnalyzerInit
    /\ pc = "idle"
    /\ request = NoRequest
    /\ result = NoResult
    /\ remembered = NoResult
    /\ supervisor = SupervisorNotCreated
    /\ redis_store = {}
    /\ ai_client = AIClientUninitialized
    /\ guardian = GuardianUninitialized
    /\ audit_log = <<>>

\* engine.evaluate(query, response, domain) is entered
Call(Q, R, D) ==
    /\ pc = "idle"
    /\ \E q \in Q, r \in R, d \in D :
          request' = [op |-> "evaluate", query |-> q, response |-> r, domain |-> d]
    /\ pc' = "called"
    /\ result' = NoResult
    /\ UNCHANGED <<engine, context_engine, remembered, guardian, audit_log, supervisor, redis_store, ai_client>>

\* the body of SafetyEngine.evaluate
Evaluate ==
    /\ pc = "called"
    /\ request.op = "evaluate"
    /\ result' = evaluate(engine, context_engine, request.query, request.response, request.domain)
    /\ engine' = engine_after_evaluate(engine, request.query, request.response, request.domain)
    /\ context_engine' = context_engine_after_analyze(context_engine, request.query)
    /\ pc' = "returned"
    /\ UNCHANGED <<request, remembered, guardian, audit_log, supervisor, redis_store, ai_client>>

\* the caller drops the result
Return ==
    /\ pc = "returned"
    /\ pc' = "idle"
    /\ request' = NoRequest
    /\ result' = NoResult
    /\ UNCHANGED <<engine, context_engine, remembered, guardian, audit_log, supervisor, redis_store, ai_client>>

\* the caller keeps the (request, result) pair of this call for a later comparison
ReturnKeep ==
    /\ pc = "returned"
    /\ request.op = "evaluate"
    /\ remembered' = [request |-> request, result |-> result]
    /\ pc' = "idle"
    /\ request' = NoRequest
    /\ result' = NoResult
    /\ UNCHANGED <<engine, context_engine, guardian, audit_log, supervisor, redis_store, ai_client>>

\* SafetyEngine._make_decision called on its own arguments (score in hundredths)
ScoreSamples == {0, 10, 49, 50, 51, 99}
ViolationLists == {<<>>, <<"UNSAFE_ADVICE">>, <<"MISSING_ESCALATION">>,
                   <<"UNSAFE_ADVICE", "MISSING_ESCALATION">>}

CallMakeDecision ==
    /\ pc = "idle"
    /\ \E sc \in ScoreSamples, rs \in SUBSET RiskCategory, vs \in ViolationLists,
          d \in DOMAIN engine.domain_profiles :
          request' = [op |-> "_make_decision", score |-> sc, risks |-> rs,
                      violations |-> vs, domain |-> d]
    /\ pc' = "called"
    /\ result' = NoResult
    /\ UNCHANGED <<engine, context_engine, remembered, guardian, audit_log, supervisor, redis_store, ai_client>>

MakeDecision ==
    /\ pc = "called"
    /\ request.op = "_make_decision"
    /\ result' = [decision |-> make_decision(ScoreOfHundredths(request.score), request.risks,
                                             request.violations, request.domain)]
    /\ pc' = "returned"
    /\ UNCHANGED <<engine, context_engine, request, remembered, guardian, audit_log, supervisor, redis_store, ai_client>>

NextEngine ==
    \/ Call(Queries, Responses, Domains)
    \/ Evaluate
    \/ CallMakeDecision
    \/ MakeDecision
    \/ Return

SpecEngine == InitEngine /\ [][NextEngine]_vars

\* engine._calculate_risk(query, response, domain) called on normalised texts
\* and a domain that has a profile
CallCalculateRisk ==
    /\ pc = "idle"
    /\ \E q \in Queries, r \in Responses, d \in DOMAIN engine.domain_profiles :
          request' = [op |-> "_calculate_risk", query |-> normalize(q),
                      response |-> normalize(r), domain |-> d]
    /\ pc' = "called"
    /\ result' = NoResult
    /\ UNCHANGED <<engine, context_engine, remembered, guardian, audit_log, supervisor, redis_store, ai_client>>

CalculateRisk ==
    /\ pc = "called"
    /\ request.op = "_calculate_risk"
    /\ result' = calculate_risk(engine, request.query, request.response, request.domain)
    /\ pc' = "returned"
    /\ UNCHANGED <<engine, context_engine, request, remembered, guardian, audit_log, supervisor, redis_store, ai_client>>

NextRisk == CallCalculateRisk \/ CalculateRisk \/ Return

SpecRisk == InitEngine /\ [][NextRisk]_vars

\* context_engine.analyze(text) called on its own: texts of up to
\* MaxContextWords phrases with negations, aggravators and mitigators
ContextPhrases == { <<"N","o"," ","c","h","e","s","t"," ","p","a","i","n">>, <<"j","u","s","t"," ","c","u","r","i","o","u","s">>, <<"D","o","n","'","t"," ","h","a","v","e">>, <<"h","y","p","o","t","h","e","t","i","c","a","l">>,
                    <<"s","e","v","e","r","e">>, <<"p","a","s","s","e","d"," ","o","u","t">>, <<"m","i","l","d">>, <<"l","a","s","t"," ","w","e","e","k">>, <<"c","h","e","s","t"," ","p","a","i","n">> }
ContextTexts == Texts(ContextPhrases, MaxContextWords)

CallAnalyze ==
    /\ pc = "idle"
    /\ \E t \in ContextTexts : request' = [op |-> "analyze", text |-> t]
    /\ pc' = "called"
    /\ result' = NoResult
    /\ UNCHANGED <<engine, context_engine, remembered, guardian, audit_log, supervisor, redis_store, ai_client>>

Analyze ==
    /\ pc = "called"
    /\ request.op = "analyze"
    /\ result' = analyze(context_engine, request.text)
    /\ context_engine' = context_engine_after_analyze(context_engine, request.text)
    /\ pc' = "returned"
    /\ UNCHANGED <<engine, request, remembered, guardian, audit_log, supervisor, redis_store, ai_client>>

NextContext == CallAnalyze \/ Analyze \/ Return

SpecContext == InitEngine /\ [][NextContext]_vars

\* Repeated calls on one engine: a few requests, any of which may be kept and
\* compared with a later call of the same arguments.
RepeatQueries == { <<"n","o"," ","c","h","e","s","t"," ","p","a","i","n">>, <<"I"," ","h","a","v","e"," ","s","3","v","e","r","e"," ","c","h","e","s","t"," ","p","a","i","n">>, <<"G","u","a","r","a","n","t","e","e","d","?">>, <<"H","i">>, <<"c","h","e","s","t"," ","p","a","i","n"," ","G","u","a","r","a","n","t","e","e","d","?">> }
RepeatResponses == { <<"H","e","l","l","o">>, <<"C","a","l","l"," ","9","1","1">>, <<"p","o","i","s","o","n">> }
RepeatDomains == {"medical", "financial", "general", "legal", "education"}

NextRepeat ==
    \/ Call(RepeatQueries, RepeatResponses, RepeatDomains)
    \/ Evaluate
    \/ Return
    \/ ReturnKeep

SpecRepeat == InitEngine /\ [][NextRepeat]_vars

(***************************************************************************)
(* The caller of TextNormalizer.normalize: every text of up to MaxTextLen   *)
(* characters over a capital, a letter, the four mapped characters, a      *)
(* digit, whitespace, punctuation and the percent sign.                    *)
(***************************************************************************)
NormalizerAlphabet == {"A", "e", "!", "3", "$", "@", "9", " ", ".", "%"}

RECURSIVE Strings(_, _)
Strings(alphabet, n) ==
    IF n = 0 THEN {<<>>}
    ELSE LET shorter == Strings(alphabet, n - 1)
         IN shorter \cup {t \o <<c>> : t \in shorter, c \in alphabet}

NormalizerTexts == Strings(NormalizerAlphabet, MaxTextLen)

\* TextNormalizer.normalize(text) is entered
NormalizeCall ==
    /\ pc = "idle"
    /\ \E x \in NormalizerTexts :
          request' = [op |-> "TextNormalizer.normalize", text |-> x, input |-> x, calls |-> 1]
    /\ pc' = "called"
    /\ result' = NoResult
    /\ UNCHANGED <<engine, context_engine, remembered, guardian, audit_log, supervisor, redis_store, ai_client>>

\* the body of TextNormalizer.normalize
Normalize ==
    /\ pc = "called"
    /\ request.op = "TextNormalizer.normalize"
    /\ result' = [text |-> normalize(request.text)]
    /\ pc' = "returned"
    /\ UNCHANGED <<engine, context_engine, request, remembered, guardian, audit_log, supervisor, redis_store, ai_client>>

\* the caller passes the returned text to normalize once more
NormalizeAgain ==
    /\ pc = "returned"
    /\ request.op = "TextNormalizer.normalize"
    /\ request.calls = 1
    /\ request' = [request EXCEPT !.text = result.text, !.calls = 2]
    /\ pc' = "called"
    /\ result' = NoResult
    /\ UNCHANGED <<engine, context_engine, remembered, guardian, audit_log, supervisor, redis_store, ai_client>>

NextNormalizer == NormalizeCall \/ Normalize \/ NormalizeAgain \/ Return

SpecNormalizer == InitEngine /\ [][NextNormalizer]_vars

(***************************************************************************)
(* The caller of one SafetyEngine who sends a request and then the same    *)
(* request obfuscated                                                      *)
(***************************************************************************)
ObfuscationQueries == { <<"I"," ","h","a","v","e"," ","c","h","e","s","t"," ","p","a","i","n">>, <<"I"," ","h","a","v","e"," ","c","h","3","s","t"," ","p","@","i","n">>, <<"I"," ","h","a","v","e"," ","c","h","e","-","s","t",","," ","p","a","i","n",".">>,
                        <<"I"," ","h","a","v","e"," ","c","h","e","s","t"," ","p","a","i","n","!">>, <<"H","i">>, <<"H","!">> }
ObfuscationResponses == { <<"R","e","l","a","x">>, <<"p","o","i","s","o","n">>, <<"p","o","!","$","o","n">>, <<"p",".","o","i","s","o","n","!">> }
ObfuscationDomains == {"medical", "general"}

NextObfuscation ==
    \/ Call(ObfuscationQueries, ObfuscationResponses, ObfuscationDomains)
    \/ Evaluate
    \/ Return
    \/ ReturnKeep

SpecObfuscation == InitEngine /\ [][NextObfuscation]_vars

(***************************************************************************)
(* The caller of one GuardianEngine                                        *)
(***************************************************************************)
GuardianQueryPhrases == { <<"I"," ","h","a","v","e">>, <<"C","h","e","s","t"," ","P","a","i","n">> }
GuardianResponsePhrases == { <<"S","e","e","k"," ","m","e","d","i","c","a","l"," ","a","d","v","i","c","e",".">>, <<"C","a","l","l"," ","9","1","1">>, <<"T","a","k","e"," ","p","a","i","n","k","i","l","l","e","r","s">>,
                             <<"M","a","y","b","e"," ","i","t"," ","m","i","g","h","t"," ","p","o","s","s","i","b","l","y"," ","p","a","s","s">>,
                             <<"M","a","y","b","e"," ","y","o","u"," ","m","i","g","h","t"," ","p","o","s","s","i","b","l","y"," ","t","a","k","e"," ","p","a","i","n","k","i","l","l","e","r","s">> }
GuardianQueries == Texts(GuardianQueryPhrases, MaxQueryWords)
GuardianResponses == Texts(GuardianResponsePhrases, MaxResponseWords)

\* GuardianEngine() runs no initialiser (the method is named _init_), and _init_
\* called by hand stops at ConfigLoader(config_dir), which takes no argument:
\* the owner of the engine sets the attributes, here to what the body of
\* _init_ assigns for a loaded configuration
GuardianInit ==
    /\ pc = "idle"
    /\ \E config \in GuardianConfigs : guardian' = guardian_init(config)
    /\ UNCHANGED <<engine, context_engine, pc, request, result, remembered, audit_log, supervisor, redis_store, ai_client>>

GuardianCall ==
    /\ pc = "idle"
    /\ \E q \in GuardianQueries, r \in GuardianResponses :
          request' = [op |-> "GuardianEngine.evaluate", query |-> q, ai_response |-> r]
    /\ pc' = "called"
    /\ result' = NoResult
    /\ audit_log' = <<>>
    /\ UNCHANGED <<engine, context_engine, remembered, guardian, supervisor, redis_store, ai_client>>

\* GuardianEngine.evaluate, with _log_to_audit appending the record it returns
GuardianEvaluate ==
    /\ pc = "called"
    /\ request.op = "GuardianEngine.evaluate"
    /\ IF guardian.initialized
       THEN LET audit_data == guardian_evaluate(guardian, request.query, request.ai_response)
            IN /\ result' = [returned |-> TRUE, audit_data |-> audit_data]
               /\ audit_log' = Append(audit_log, audit_data)
       ELSE /\ result' = [returned |-> FALSE, raised |-> "AttributeError"]
            /\ audit_log' = audit_log
    /\ pc' = "returned"
    /\ UNCHANGED <<engine, context_engine, request, remembered, guardian, supervisor, redis_store, ai_client>>

GuardianReturn ==
    /\ pc = "returned"
    /\ request.op = "GuardianEngine.evaluate"
    /\ pc' = "idle"
    /\ request' = NoRequest
    /\ result' = NoResult
    /\ audit_log' = <<>>
    /\ UNCHANGED <<engine, context_engine, remembered, guardian, supervisor, redis_store, ai_client>>

NextGuardian == GuardianInit \/ GuardianCall \/ GuardianEvaluate \/ GuardianReturn

SpecGuardian == InitEngine /\ [][NextGuardian]_vars

(***************************************************************************)
(* The caller of the guardian's ConfidenceScorer: calculate, then explain, *)
(* on the same response                                                    *)
(***************************************************************************)
ScorerPhrases == { <<"M","a","y","b","e">>, <<"i","t"," ","m","i","g","h","t">>, <<"p","o","s","s","i","b","l","y">>, <<"C","a","l","l"," ","9","1","1">> }
ScorerResponses == Texts(ScorerPhrases, MaxResponseWords + 1)

ScorerCall ==
    /\ pc = "idle"
    /\ guardian.initialized
    /\ \E r \in ScorerResponses : request' = [op |-> "ConfidenceScorer", response |-> r]
    /\ pc' = "called"
    /\ result' = NoResult
    /\ UNCHANGED <<engine, context_engine, remembered, guardian, audit_log, supervisor, redis_store, ai_client>>

\* confidence_scorer.calculate(response)
ScorerCalculate ==
    /\ pc = "called"
    /\ request.op = "ConfidenceScorer"
    /\ result' = [score |-> confidence_calculate(guardian.hedging_words, request.response)]
    /\ pc' = "evaluated"
    /\ UNCHANGED <<engine, context_engine, request, remembered, guardian, audit_log, supervisor, redis_store, ai_client>>

\* confidence_scorer.explain(response)
ScorerExplain ==
    /\ pc = "evaluated"
    /\ request.op = "ConfidenceScorer"
    /\ result' = [score |-> result.score,
                  explain |-> confidence_explain(guardian.hedging_words, request.response)]
    /\ pc' = "returned"
    /\ UNCHANGED <<engine, context_engine, request, remembered, guardian, audit_log, supervisor, redis_store, ai_client>>

NextScorer == GuardianInit \/ ScorerCall \/ ScorerCalculate \/ ScorerExplain \/ Return

SpecScorer == InitEngine /\ [][NextScorer]_vars

(***************************************************************************)
(* The caller of one SafetySupervisor                                      *)
(***************************************************************************)
SupervisorQueryPhrases == { <<"C","h","e","s","t"," ","P","a","i","n">>, <<"m","y"," ","p","a","s","s","w","o","r","d">> }
SupervisorResponsePhrases == { <<"g","u","a","r","a","n","t","e","e","d"," ","r","e","t","u","r","n","s">>, <<"H","e","l","l","o"," ">> }
SupervisorQueries == Texts(SupervisorQueryPhrases, MaxQueryWords)
SupervisorResponses == Texts(SupervisorResponsePhrases, MaxResponseWords)
Clock == 0..MaxClock

\* create_supervisor(domain, redis_url)
SupervisorCreate ==
    /\ pc = "idle"
    /\ \E domain \in Domain, redis_connected \in BOOLEAN :
          supervisor' = supervisor_init(domain, redis_connected)
    /\ redis_store' = {}
    /\ UNCHANGED <<engine, context_engine, pc, request, result, remembered, guardian,
                   audit_log, ai_client>>

\* the caller builds a SafetyRequest: while results are cached, it repeats the
\* request that is cached
SupervisorCall ==
    /\ pc = "idle"
    /\ supervisor.created
    /\ \E q \in SupervisorQueries, r \in SupervisorResponses, d \in Domain :
          LET safety_request == SafetyRequest(q, r, d)
          IN IF safety_request.valid
             THEN /\ \A e \in redis_store :
                        /\ e.key.content = generate_audit_id(safety_request.query,
                                                             safety_request.response, 0).content
                        /\ e.audit_trail.domain = safety_request.domain
                  /\ request' = [op |-> "SafetySupervisor.evaluate", request |-> safety_request]
                  /\ result' = NoResult
                  /\ pc' = "called"
             ELSE /\ redis_store = {}
                  /\ request' = [op |-> "SafetyRequest", query |-> q, response |-> r, domain |-> d]
                  /\ result' = [returned |-> FALSE, raised |-> safety_request.raised]
                  /\ pc' = "returned"
    /\ UNCHANGED <<engine, context_engine, remembered, guardian, audit_log,
                   supervisor, redis_store, ai_client>>

\* SafetySupervisor.evaluate, with the time datetime.now() gives it
SupervisorEvaluate ==
    /\ pc = "called"
    /\ request.op = "SafetySupervisor.evaluate"
    /\ \E now \in Clock :
          \E o \in supervisor_evaluate(supervisor, redis_store, request.request, now) :
              /\ result' = o.returned
              /\ redis_store' = o.store
    /\ pc' = "returned"
    /\ UNCHANGED <<engine, context_engine, request, remembered, guardian, audit_log,
                   supervisor, ai_client>>

\* the one hour the entries live has passed
CacheExpire ==
    /\ pc = "idle"
    /\ redis_store # {}
    /\ redis_store' = {}
    /\ UNCHANGED <<engine, context_engine, pc, request, result, remembered, guardian,
                   audit_log, supervisor, ai_client>>

\* POST /api/v1/evaluate reaches the handler with a validated body and the
\* supervisor that get_supervisor found; the callers repeat as in SupervisorCall
EndpointCall ==
    /\ pc = "idle"
    /\ supervisor.created
    /\ \E q \in SupervisorQueries, r \in SupervisorResponses, d \in Domain :
          LET safety_request == SafetyRequest(q, r, d)
          IN /\ safety_request.valid
             /\ \A e \in redis_store :
                   /\ e.key.content = generate_audit_id(safety_request.query,
                                                        safety_request.response, 0).content
                   /\ e.audit_trail.domain = safety_request.domain
             /\ request' = [op |-> "evaluate_safety", request |-> safety_request]
    /\ result' = NoResult
    /\ pc' = "called"
    /\ UNCHANGED <<engine, context_engine, remembered, guardian, audit_log,
                   supervisor, redis_store, ai_client>>

\* the endpoint evaluate_safety
EvaluateSafety ==
    /\ pc = "called"
    /\ request.op = "evaluate_safety"
    /\ \E now \in Clock :
          \E o \in supervisor_evaluate(supervisor, redis_store, request.request, now) :
              /\ result' = evaluate_safety(o.returned.decision, o.returned.audit_trail)
              /\ redis_store' = o.store
    /\ pc' = "returned"
    /\ UNCHANGED <<engine, context_engine, request, remembered, guardian, audit_log,
                   supervisor, ai_client>>

NextSupervisor ==
    \/ SupervisorCreate \/ SupervisorCall \/ SupervisorEvaluate \/ CacheExpire
    \/ EndpointCall \/ EvaluateSafety \/ Return

SpecSupervisor == InitEngine /\ [][NextSupervisor]_vars

(***************************************************************************)
(* The caller of SafetySupervisors built with the default rules or from a  *)
(* rules file                                                              *)
(***************************************************************************)
RuleQueries == { <<"i","l","l","e","g","a","l"," ","d","r","u","g","s">>, <<"C","h","e","s","t"," ","P","a","i","n">> }
RuleResponses == { <<"C","a","l","l"," ","9","1","1">>, <<"g","u","a","r","a","n","t","e","e","d"," ","r","e","t","u","r","n","s">>, <<"H","e","l","l","o">> }

\* rules of a rules file, as json.load gives them: CUSTOM_002 has the pattern
\* "(unclosed", which re.compile rejects with re.error
custom_illegal == [id |-> "CUSTOM_001", pattern |-> << <<"i","l","l","e","g","a","l"," ","d","r","u","g","s">> >>,
                   description |-> "Illegal activity", domain |-> "general",
                   risk_level |-> "CRITICAL", action |-> "BLOCK"]
custom_unclosed == [id |-> "CUSTOM_002", regex_error |-> TRUE,
                    description |-> "Unclosed group", domain |-> "general",
                    risk_level |-> "HIGH", action |-> "BLOCK"]
custom_emergency == [id |-> "CUSTOM_003", pattern |-> << <<"c","h","e","s","t"," ","p","a","i","n">> >>,
                     description |-> "Emergency", domain |-> "medical",
                     risk_level |-> "CRITICAL", action |-> "BLOCK"]
RulesFiles == { <<custom_illegal>>, <<custom_illegal, custom_unclosed>>,
                <<custom_unclosed, custom_emergency>>,
                <<custom_illegal, custom_unclosed, custom_emergency>> }

\* SafetySupervisor(domain, None, rules_path)
SupervisorCreateRulesPath ==
    /\ pc = "idle"
    /\ \E domain \in Domain, rules_data \in RulesFiles :
          supervisor' = supervisor_init_rules_path(domain, FALSE, rules_data)
    /\ redis_store' = {}
    /\ UNCHANGED <<engine, context_engine, pc, request, result, remembered, guardian,
                   audit_log, ai_client>>

\* the caller builds a SafetyRequest; while results are cached, it repeats the
\* request that is cached
RuleCall ==
    /\ pc = "idle"
    /\ supervisor.created
    /\ \E q \in RuleQueries, r \in RuleResponses, d \in Domain :
          LET safety_request == SafetyRequest(q, r, d)
          IN /\ safety_request.valid
             /\ \A e \in redis_store :
                   /\ e.key.content = generate_audit_id(safety_request.query,
                                                        safety_request.response, 0).content
                   /\ e.audit_trail.domain = safety_request.domain
             /\ request' = [op |-> "SafetySupervisor.evaluate", request |-> safety_request]
    /\ result' = NoResult
    /\ pc' = "called"
    /\ UNCHANGED <<engine, context_engine, remembered, guardian, audit_log,
                   supervisor, redis_store, ai_client>>

NextRules ==
    \/ SupervisorCreate \/ SupervisorCreateRulesPath \/ RuleCall \/ SupervisorEvaluate
    \/ CacheExpire \/ Return

SpecRules == InitEngine /\ [][NextRules]_vars

(***************************************************************************)
(* The caller of SafetySupervisor._make_decision: every list of up to      *)
(* MaxFactors risk factors, with confidences (in hundredths) on both sides *)
(* of the two thresholds                                                   *)
(***************************************************************************)
ConfidenceSamples == {0, 29, 30, 49, 50, 100}

\* RiskFactor(rule_id, description, risk_level, confidence, evidence)
RiskFactor(level) ==
    [rule_id |-> "RULE_001", description |-> "risk", risk_level |-> level,
     confidence |-> 90, evidence |-> <<"r","i","s","k">>,
     context |-> [match_count |-> 1, domain |-> "general"]]

RECURSIVE RiskFactorLists(_)
RiskFactorLists(n) ==
    IF n = 0 THEN {<<>>}
    ELSE LET shorter == RiskFactorLists(n - 1)
         IN shorter \cup {l \o <<RiskFactor(level)>> : l \in shorter, level \in Range(RiskLevel)}

\* supervisor._make_decision(risk_factors, confidence) is entered
CallSupervisorMakeDecision ==
    /\ pc = "idle"
    /\ supervisor.created
    /\ \E rfs \in RiskFactorLists(MaxFactors), c \in ConfidenceSamples :
          request' = [op |-> "SafetySupervisor._make_decision",
                      risk_factors |-> rfs, confidence |-> c]
    /\ pc' = "called"
    /\ result' = NoResult
    /\ UNCHANGED <<engine, context_engine, remembered, guardian, audit_log,
                   supervisor, redis_store, ai_client>>

\* the body of SafetySupervisor._make_decision
SupervisorMakeDecision ==
    /\ pc = "called"
    /\ request.op = "SafetySupervisor._make_decision"
    /\ result' = [decision |-> supervisor_make_decision(request.risk_factors, request.confidence)]
    /\ pc' = "returned"
    /\ UNCHANGED <<engine, context_engine, request, remembered, guardian, audit_log,
                   supervisor, redis_store, ai_client>>

\* create_supervisor(domain) without a redis_url
SupervisorCreateUncached ==
    /\ pc = "idle"
    /\ \E domain \in Domain : supervisor' = supervisor_init(domain, FALSE)
    /\ redis_store' = {}
    /\ UNCHANGED <<engine, context_engine, pc, request, result, remembered, guardian,
                   audit_log, ai_client>>

NextDecision ==
    SupervisorCreateUncached \/ CallSupervisorMakeDecision \/ SupervisorMakeDecision \/ Return

SpecDecision == InitEngine /\ [][NextDecision]_vars

(***************************************************************************)
(* Concurrent calls of SafetySupervisor.evaluate on one supervisor: the    *)
(* coroutines of one asyncio.gather, each running from one await to the    *)
(* next before another one is resumed                                      *)
(***************************************************************************)
ConcurrentRequests ==
    { SafetyRequest(<<"C","h","e","s","t"," ","P","a","i","n">>, <<"H","e","l","l","o">>, "medical"),
      SafetyRequest(<<"C","h","e","s","t"," ","P","a","i","n">>, <<"H","e","l","l","o">>, "general"),
      SafetyRequest(<<"m","y"," ","p","a","s","s","w","o","r","d">>, <<"H","e","l","l","o">>, "general") }

\* create_supervisor for the general or the medical domain
SupervisorCreateShared ==
    /\ pc = "idle"
    /\ \E domain \in {"general", "medical"}, redis_connected \in BOOLEAN :
          supervisor' = supervisor_init(domain, redis_connected)
    /\ redis_store' = {}
    /\ UNCHANGED <<engine, context_engine, pc, request, result, remembered, guardian,
                   audit_log, ai_client>>

\* asyncio.gather(supervisor.evaluate(r1), ..., supervisor.evaluate(rn)); the
\* cache as it is at this moment is kept in the request
GatherCall ==
    /\ pc = "idle"
    /\ supervisor.created
    /\ \E n \in 1..MaxCalls : \E rs \in [1..n -> ConcurrentRequests] :
          request' = [op |-> "gather", store |-> redis_store,
                      calls |-> [i \in 1..n |->
                                   [request |-> rs[i], at |-> "start", audit_id |-> None,
                                    risk_factors |-> None, returned |-> None]]]
    /\ pc' = "called"
    /\ result' = NoResult
    /\ UNCHANGED <<engine, context_engine, remembered, guardian, audit_log,
                   supervisor, redis_store, ai_client>>

Gathering == pc = "called" /\ request.op = "gather"

\* evaluate up to `await self._check_cache(audit_id)`
GenerateAuditId ==
    /\ Gathering
    /\ \E i \in DOMAIN request.calls, now \in Clock :
          /\ request.calls[i].at = "start"
          /\ request' = [request EXCEPT
                !.calls[i].audit_id = Some(generate_audit_id(request.calls[i].request.query,
                                                            request.calls[i].request.response, now)),
                !.calls[i].at = "check_cache"]
    /\ UNCHANGED <<engine, context_engine, pc, result, remembered, guardian, audit_log,
                   supervisor, redis_store, ai_client>>

\* _check_cache answers: a hit returns the stored result
CheckCache ==
    /\ Gathering
    /\ \E i \in DOMAIN request.calls :
          /\ request.calls[i].at = "check_cache"
          /\ LET cached_result == check_cache(supervisor, redis_store, request.calls[i].audit_id[1])
             IN IF cached_result # {}
                THEN \E e \in cached_result :
                        request' = [request EXCEPT
                           !.calls[i].returned = Some([returned |-> TRUE, decision |-> e.decision,
                                                       audit_trail |-> e.audit_trail]),
                           !.calls[i].at = "done"]
                ELSE request' = [request EXCEPT !.calls[i].at = "check_all_rules"]
    /\ UNCHANGED <<engine, context_engine, pc, result, remembered, guardian, audit_log,
                   supervisor, redis_store, ai_client>>

\* `await self._check_all_rules(request)` completes
CheckAllRules ==
    /\ Gathering
    /\ \E i \in DOMAIN request.calls :
          /\ request.calls[i].at = "check_all_rules"
          /\ request' = [request EXCEPT
                !.calls[i].risk_factors =
                    Some(check_all_rules(supervisor, supervisor.rules, request.calls[i].request)),
                !.calls[i].at = "cache_result"]
    /\ UNCHANGED <<engine, context_engine, pc, result, remembered, guardian, audit_log,
                   supervisor, redis_store, ai_client>>

\* confidence, decision, counterfactual, AuditTrail, then _cache_result writes
\* and evaluate returns
CacheResult ==
    /\ Gathering
    /\ \E i \in DOMAIN request.calls :
          /\ request.calls[i].at = "cache_result"
          /\ \E c \in supervisor_calculate_confidence(request.calls[i].risk_factors[1]) :
                LET o == evaluate_with_confidence(supervisor, redis_store, request.calls[i].request,
                                                  request.calls[i].audit_id[1],
                                                  request.calls[i].risk_factors[1], c)
                IN /\ request' = [request EXCEPT !.calls[i].returned = Some(o.returned),
                                                 !.calls[i].at = "done"]
                   /\ redis_store' = o.store
    /\ UNCHANGED <<engine, context_engine, pc, result, remembered, guardian, audit_log,
                   supervisor, ai_client>>

\* gather returns the results of all calls
GatherReturn ==
    /\ Gathering
    /\ \A i \in DOMAIN request.calls : request.calls[i].at = "done"
    /\ result' = [returned |-> TRUE,
                  results |-> [i \in DOMAIN request.calls |-> request.calls[i].returned[1]]]
    /\ pc' = "returned"
    /\ UNCHANGED <<engine, context_engine, request, remembered, guardian, audit_log,
                   supervisor, redis_store, ai_client>>

NextConcurrent ==
    \/ SupervisorCreateShared \/ GatherCall \/ GenerateAuditId \/ CheckCache \/ CheckAllRules
    \/ CacheResult \/ GatherReturn \/ CacheExpire \/ Return

SpecConcurrent == InitEngine /\ [][NextConcurrent]_vars

(***************************************************************************)
(* src.api.server: RateLimiter, and the requests of clients passing the    *)
(* monitor_requests middleware concurrently.  redis_store holds the        *)
(* counter keys.                                                           *)
(***************************************************************************)
\* RateLimiter.__init__
RateLimiter(redis_client, requests_per_minute) ==
    [redis |-> redis_client, requests_per_minute |-> requests_per_minute]

\* lifespan: RateLimiter(app_state.redis_client), made once the ping succeeded
rate_limiter == RateLimiter(TRUE, 60)

\* f"rate_limit:{client_id}"
rate_limit_key(client_id) == <<"rate_limit", client_id>>

\* redis.get(key): the value, None when the key does not exist
redis_get(store, key) ==
    IF \E e \in store : e.key = key
    THEN Some((CHOOSE e \in store : e.key = key).value)
    ELSE None

\* `current and int(current) >= self.requests_per_minute`
over_limit(limiter, current) ==
    current # None /\ current[1] >= limiter.requests_per_minute

\* the pipeline of is_rate_limited run as one transaction: incr(key, 1) creates
\* the key at 1 when it does not exist, expire(key, 60) restarts its minute
pipeline_execute(store, key) ==
    LET current == redis_get(store, key)
        value == IF current = None THEN 1 ELSE current[1] + 1
    IN {e \in store : e.key # key} \cup {[key |-> key, value |-> value]}

ClientIds == {"10.0.0.1", "10.0.0.2"}

\* up to MaxCalls requests to /api/ endpoints are in the middleware at once
RequestsArrive ==
    /\ pc = "idle"
    /\ \E n \in 1..MaxCalls : \E cs \in [1..n -> ClientIds] :
          request' = [op |-> "is_rate_limited",
                      calls |-> [i \in 1..n |-> [client_id |-> cs[i], at |-> "get",
                                                 limited |-> None]]]
    /\ pc' = "called"
    /\ result' = NoResult
    /\ UNCHANGED <<engine, context_engine, remembered, guardian, audit_log,
                   supervisor, redis_store, ai_client>>

RateLimiting == pc = "called" /\ request.op = "is_rate_limited"

\* is_rate_limited up to the answer of `await self.redis.get(key)`: True when
\* the count read has reached the limit
RedisGet ==
    /\ RateLimiting
    /\ \E i \in DOMAIN request.calls :
          /\ request.calls[i].at = "get"
          /\ LET current == redis_get(redis_store, rate_limit_key(request.calls[i].client_id))
             IN request' =
                   IF ~rate_limiter.redis
                   THEN [request EXCEPT !.calls[i].limited = Some(FALSE), !.calls[i].at = "done"]
                   ELSE IF over_limit(rate_limiter, current)
                   THEN [request EXCEPT !.calls[i].limited = Some(TRUE), !.calls[i].at = "done"]
                   ELSE [request EXCEPT !.calls[i].at = "pipeline"]
    /\ UNCHANGED <<engine, context_engine, pc, result, remembered, guardian, audit_log,
                   supervisor, redis_store, ai_client>>

\* `await pipe.execute()` and `return False`
PipelineExecute ==
    /\ RateLimiting
    /\ \E i \in DOMAIN request.calls :
          /\ request.calls[i].at = "pipeline"
          /\ redis_store' = pipeline_execute(redis_store, rate_limit_key(request.calls[i].client_id))
          /\ request' = [request EXCEPT !.calls[i].limited = Some(FALSE), !.calls[i].at = "done"]
    /\ UNCHANGED <<engine, context_engine, pc, result, remembered, guardian, audit_log,
                   supervisor, ai_client>>

\* the minute of a counter key is over: Redis drops the key
KeyExpire ==
    /\ \E e \in redis_store : redis_store' = redis_store \ {e}
    /\ UNCHANGED <<engine, context_engine, pc, request, result, remembered, guardian,
                   audit_log, supervisor, ai_client>>

\* every request in the middleware has its answer
RequestsAnswered ==
    /\ RateLimiting
    /\ \A i \in DOMAIN request.calls : request.calls[i].at = "done"
    /\ result' = [returned |-> TRUE,
                  limited |-> [i \in DOMAIN request.calls |-> request.calls[i].limited[1]]]
    /\ pc' = "returned"
    /\ UNCHANGED <<engine, context_engine, request, remembered, guardian, audit_log,
                   supervisor, redis_store, ai_client>>

NextRateLimit ==
    \/ RequestsArrive \/ RedisGet \/ PipelineExecute \/ KeyExpire \/ RequestsAnswered \/ Return

SpecRateLimit == InitEngine /\ [][NextRateLimit]_vars

(***************************************************************************)
(* The callers of the AIClientManager singleton and of the worker task     *)
(***************************************************************************)
ApiKeys == {"openai", "anthropic", "google"}
ModelNames == { <<"g","p","t","-","4">>, <<"c","l","a","u","d","e","-","3","-","o","p","u","s","-","2","0","2","4","0","2","2","9">>, <<"g","e","m","i","n","i","-","p","r","o">> }
DomainNames == Domain \cup {"sports"}

\* ai_client._init_() called by the program, with some API keys in the environment
AIClientInit ==
    /\ pc = "idle"
    /\ \E api_keys \in SUBSET ApiKeys : ai_client' = ai_client_init(api_keys)
    /\ UNCHANGED <<engine, context_engine, pc, request, result, remembered, guardian,
                   audit_log, supervisor, redis_store>>

CompletionCall ==
    /\ pc = "idle"
    /\ \E prompt \in SupervisorQueries, model \in ModelNames, domain \in DomainNames :
          request' = [op |-> "safe_completion", prompt |-> prompt, model |-> model,
                      domain |-> domain]
    /\ result' = NoResult
    /\ pc' = "called"
    /\ UNCHANGED <<engine, context_engine, remembered, guardian, audit_log,
                   supervisor, redis_store, ai_client>>

\* AIClientManager.safe_completion up to `await supervisor.evaluate(...)`: the
\* completion the API gives (or its failure), a supervisor of its own for the
\* domain, the SafetyRequest and the evaluation; any exception ends the call
SafeCompletion ==
    /\ pc = "called"
    /\ request.op = "safe_completion"
    /\ \E completion \in {None} \cup {Some(r) : r \in SupervisorResponses}, now \in Clock :
          LET failure == completion_failure(ai_client, request.model, completion)
              safety_request == SafetyRequest(request.prompt, completion[1], request.domain)
          IN /\ request' = request @@ [completion |-> completion]
             /\ IF failure # None
                THEN result' = completion_error(failure[1]) /\ pc' = "returned"
                ELSE IF ~safety_request.valid
                THEN result' = completion_error(safety_request.raised) /\ pc' = "returned"
                ELSE /\ \E o \in supervisor_evaluate(supervisor_init(request.domain, FALSE),
                                                    {}, safety_request, now) :
                           result' = o.returned
                     /\ pc' = "evaluated"
    /\ UNCHANGED <<engine, context_engine, remembered, guardian, audit_log,
                   supervisor, redis_store, ai_client>>

\* the rest of safe_completion: the dict made of the decision and the audit trail
SafeCompletionReturn ==
    /\ pc = "evaluated"
    /\ request.op = "safe_completion"
    /\ result' = completion_result(request.completion[1], result.decision, result.audit_trail)
    /\ pc' = "returned"
    /\ UNCHANGED <<engine, context_engine, request, remembered, guardian, audit_log,
                   supervisor, redis_store, ai_client>>

\* evaluate_safety.delay(query, response, domain)
TaskCall ==
    /\ pc = "idle"
    /\ \E query \in SupervisorQueries, response \in SupervisorResponses, domain \in DomainNames :
          request' = [op |-> "evaluate_safety_task", query |-> query, response |-> response,
                      domain |-> domain]
    /\ result' = NoResult
    /\ pc' = "called"
    /\ UNCHANGED <<engine, context_engine, remembered, guardian, audit_log,
                   supervisor, redis_store, ai_client>>

\* the worker runs evaluate_safety_task
EvaluateSafetyTask ==
    /\ pc = "called"
    /\ request.op = "evaluate_safety_task"
    /\ \E now \in Clock :
          result' \in evaluate_safety_task(request.query, request.response, request.domain, now)
    /\ pc' = "returned"
    /\ UNCHANGED <<engine, context_engine, request, remembered, guardian, audit_log,
                   supervisor, redis_store, ai_client>>

NextClients ==
    \/ AIClientInit \/ CompletionCall \/ SafeCompletion \/ SafeCompletionReturn
    \/ TaskCall \/ EvaluateSafetyTask \/ Return

SpecClients == InitEngine /\ [][NextClients]_vars

(***************************************************************************)
(* Properties of SafetyEngine.evaluate                                     *)
(***************************************************************************)
EvalReturned == pc = "returned" /\ request.op = "evaluate"
DecideReturned == pc = "returned" /\ request.op = "_make_decision"

\* What the request of the returned call matches, computed from its arguments:
\*   matched     the configured risk patterns matching the normalised query or response
\*   categories  their categories
\*   negation    a hard-negation pattern matches the normalised query
\*   mitigation  a mitigation pattern matches the normalised response
RequestFacts ==
    LET nq == normalize(request.query)
        nr == normalize(request.response)
        matched == {i \in DOMAIN engine.risk_patterns :
                       \/ re_search(engine.risk_patterns[i].alts, nq)
                       \/ re_search(engine.risk_patterns[i].alts, nr)}
    IN [matched |-> matched,
        categories |-> {engine.risk_patterns[i].category : i \in matched},
        chest_pain_in_query |-> re_search(engine.risk_patterns[1].alts, nq),
        negation |-> \E i \in DOMAIN context_engine.hard_negations :
                        re_search(context_engine.hard_negations[i].alts, nq),
        mitigation |-> \E i \in DOMAIN engine.mitigation_patterns :
                          re_search(engine.mitigation_patterns[i].alts, nr)]

CriticalDetected == {"MEDICAL_EMERGENCY", "SELF_HARM"} \cap result.detected_risks # {}

\* the rules of the policy table, stated on the request and the reported risks
BlockRule1(f) == "HARMFUL_CONTENT" \in f.categories
BlockRule2(f) == CriticalDetected /\ ~f.mitigation
HighStakesRule == request.domain \in {"medical", "financial"} /\ result.detected_risks # {}

\* C1: a HARMFUL_CONTENT pattern matching the normalised query or response gives
\* BLOCK, for every declared domain, whatever else matches, with or without a
\* mitigation phrase, whatever the score and the context analysis.
C1_HarmfulContentBlocks ==
    EvalReturned => LET f == RequestFacts IN BlockRule1(f) => result.decision = "BLOCK"

\* a harmful request in the medical domain, with a mitigation phrase in the
\* response and a second category detected, is answered BLOCK
C1_Witness ==
    /\ EvalReturned
    /\ request.domain = "medical"
    /\ "MEDICAL_EMERGENCY" \in result.detected_risks
    /\ result.decision = "BLOCK"
    /\ LET f == RequestFacts IN BlockRule1(f) /\ f.mitigation

\* C2: without a HARMFUL_CONTENT match the decision is BLOCK exactly when
\* MEDICAL_EMERGENCY or SELF_HARM is among the detected risks and the normalised
\* response matches no mitigation pattern.
C2_BlockIffMissingEscalation ==
    EvalReturned => LET f == RequestFacts
                    IN ~BlockRule1(f) => (result.decision = "BLOCK" <=> BlockRule2(f))

\* SELF_HARM detected, no mitigation phrase, no harmful content: BLOCK
C2_Witness ==
    /\ EvalReturned
    /\ "SELF_HARM" \in result.detected_risks
    /\ "MEDICAL_EMERGENCY" \notin result.detected_risks
    /\ result.decision = "BLOCK"
    /\ LET f == RequestFacts IN ~BlockRule1(f) /\ ~f.mitigation

\* C7: in the medical or financial domain, with a risk category left after the
\* context analysis and neither BLOCK rule applying, the decision is ESCALATE
\* whatever the risk score is.
C7_HighStakesEscalates ==
    (EvalReturned /\ HighStakesRule)
        => LET f == RequestFacts
           IN (~BlockRule1(f) /\ ~BlockRule2(f)) => result.decision = "ESCALATE"

\* a financial request whose score the context override lowered to below 0.5
C7_Witness ==
    /\ EvalReturned /\ HighStakesRule
    /\ request.domain = "financial"
    /\ result.risk_score < 500
    /\ result.decision = "ESCALATE"
    /\ LET f == RequestFacts IN ~BlockRule1(f) /\ ~BlockRule2(f)

\* C8: when no BLOCK rule and not the high-stakes rule applies, the decision is
\* ESCALATE for a score of at least 0.5 and APPROVE below; a request in which no
\* pattern matches is APPROVEd with score 0, no risks and no violations.
C8_ScoreThreshold ==
    /\ EvalReturned =>
          LET f == RequestFacts
          IN /\ (~BlockRule1(f) /\ ~BlockRule2(f) /\ ~HighStakesRule)
                   => result.decision = IF result.risk_score >= 500 THEN "ESCALATE" ELSE "APPROVE"
             /\ f.matched = {}
                   => /\ result.decision = "APPROVE"
                      /\ result.risk_score = 0
                      /\ result.detected_risks = {}
                      /\ result.violations = <<>>
    /\ (/\ DecideReturned
        /\ "HARMFUL_CONTENT" \notin request.risks
        /\ request.violations = <<>>
        /\ ~(request.domain \in {"medical", "financial"} /\ request.risks # {}))
          => result.decision = IF request.score >= 50 THEN "ESCALATE" ELSE "APPROVE"

\* the boundary: _make_decision on a score of exactly 0.5 with a risk in the
\* general domain
C8_Witness ==
    /\ DecideReturned
    /\ request.score = 50
    /\ request.risks = {"FINANCIAL_SCAM"}
    /\ request.violations = <<>>
    /\ request.domain = "general"
    /\ result.decision = "ESCALATE"

\* C9: outside the medical domain, a hard negation in the normalised query removes
\* a matched MEDICAL_EMERGENCY from the detected risks, raises no
\* MISSING_ESCALATION on its account, and with no other category matched the
\* decision is APPROVE.
C9_NegationOverride ==
    (EvalReturned /\ request.domain # "medical")
    => LET f == RequestFacts
       IN (f.negation /\ "MEDICAL_EMERGENCY" \in f.categories)
          => /\ "MEDICAL_EMERGENCY" \notin result.detected_risks
             /\ "MISSING_ESCALATION" \in Range(result.violations) => "SELF_HARM" \in f.categories
             /\ f.categories = {"MEDICAL_EMERGENCY"} => result.decision = "APPROVE"

\* "no chest pain" in the general domain, answered without a mitigation phrase
C9_Witness ==
    /\ EvalReturned /\ request.domain = "general"
    /\ result.decision = "APPROVE"
    /\ LET f == RequestFacts IN f.negation /\ f.chest_pain_in_query /\ ~f.mitigation

\* the noisy-OR complement: the product, over the matched patterns, of
\* 1 - min(weight * multiplier, 0.99)
RECURSIVE ComplementProduct(_, _)
ComplementProduct(S, multipliers) ==
    IF S = {} THEN DecOne
    ELSE LET i == CHOOSE x \in S : TRUE
             pat == engine.risk_patterns[i]
             mult == IF pat.category \in DOMAIN multipliers THEN multipliers[pat.category] ELSE 100
             w == IF pat.weight * mult < 9900 THEN pat.weight * mult ELSE 9900
         IN DecMul(Dec(10000 - w, 4), ComplementProduct(S \ {i}, multipliers))

\* C10: in the medical domain the context analyzer is not consulted: a matched
\* MEDICAL_EMERGENCY stays detected, the score is the noisy-OR value, and the
\* request is not APPROVEd, even with a hard negation or mitigator in the query.
C10_MedicalNeverDowngraded ==
    (EvalReturned /\ request.domain = "medical")
    => LET f == RequestFacts
       IN "MEDICAL_EMERGENCY" \in f.categories
          => /\ "MEDICAL_EMERGENCY" \in result.detected_risks
             /\ result.explanation[1] = <<>>
             /\ result.risk_score =
                   Round3(ScoreOfComplement(ComplementProduct(f.matched,
                                                              engine.domain_profiles["medical"])))
             /\ result.decision # "APPROVE"

\* "no chest pain" in the medical domain with a mitigation phrase in the response
C10_Witness ==
    /\ EvalReturned /\ request.domain = "medical"
    /\ result.decision = "ESCALATE"
    /\ LET f == RequestFacts
       IN f.negation /\ "MEDICAL_EMERGENCY" \in f.categories /\ f.mitigation

GuardianReturned ==
    pc = "returned" /\ request.op = "GuardianEngine.evaluate" /\ result.returned

RuleNamesListed == {guardian.rules[i].name : i \in DOMAIN guardian.rules}

\* the unsafe pattern and its context are both in the lower-cased response
SafetyViolationDetected ==
    \E k \in DOMAIN guardian.unsafe_patterns :
        /\ str_in(str_lower(guardian.unsafe_patterns[k].pattern), str_lower(request.ai_response))
        /\ str_in(str_lower(guardian.unsafe_patterns[k].context), str_lower(request.ai_response))

\* C4: in every record GuardianEngine.evaluate returns, safe_response is None
\* exactly when the decision is BLOCK and is otherwise the input ai_response, and
\* original_ai_response is always the input ai_response.
C4_SafeResponseRedaction ==
    GuardianReturned =>
        LET a == result.audit_data
        IN /\ a.safe_response = None <=> a.decision = "BLOCK"
           /\ a.decision # "BLOCK" => a.safe_response = Some(request.ai_response)
           /\ a.original_ai_response = request.ai_response
           /\ audit_log = <<a>>

\* an ESCALATE record that still carries the response
C4_Witness ==
    /\ GuardianReturned
    /\ result.audit_data.decision = "ESCALATE"
    /\ result.audit_data.safe_response = Some(request.ai_response)
    /\ request.ai_response # <<>>

\* C6 as stated: a detected safety violation gives BLOCK with reason
\* SAFETY_VIOLATION for every rule list that names all three rules, in any order.
C6_ViolationBlocksInAnyOrder ==
    (GuardianReturned /\ RuleNamesListed = RuleNames /\ SafetyViolationDetected)
        => /\ result.audit_data.decision = "BLOCK"
           /\ result.audit_data.reason = "SAFETY_VIOLATION"

\* C6, amended: a detected safety violation gives BLOCK with reason
\* SAFETY_VIOLATION, whatever the confidence score and the severity flags, for
\* every rule list that names all three rules with SAFETY_VIOLATION first.
C6_ViolationBlocksWhenListedFirst ==
    (/\ GuardianReturned /\ RuleNamesListed = RuleNames
     /\ guardian.rules[1].name = "SAFETY_VIOLATION"
     /\ SafetyViolationDetected)
        => /\ result.audit_data.decision = "BLOCK"
           /\ result.audit_data.reason = "SAFETY_VIOLATION"

\* SAFETY_VIOLATION listed first, with a low confidence score and a high-severity
\* query without escalation at the same time
C6_Witness ==
    /\ GuardianReturned /\ RuleNamesListed = RuleNames
    /\ guardian.rules[1].name = "SAFETY_VIOLATION"
    /\ SafetyViolationDetected
    /\ result.audit_data.scores.confidence < guardian.confidence_threshold
    /\ result.audit_data.checks.is_high_severity
    /\ ~result.audit_data.checks.has_emergency_escalation
    /\ result.audit_data.reason = "SAFETY_VIOLATION"

(***************************************************************************)
(* Properties of SafetySupervisor.evaluate and AIClientManager.safe_completion *)
(***************************************************************************)
\* SafetySupervisor.evaluate has returned, to its caller or inside safe_completion
SupervisorEvaluateReturned ==
    \/ pc = "returned" /\ request.op = "SafetySupervisor.evaluate"
    \/ pc = "evaluated" /\ request.op = "safe_completion"

SafeCompletionReturned == pc = "returned" /\ request.op = "safe_completion"

\* C3: no result with decision BLOCK surfaces the original response text: every
\* AuditTrail that SafetySupervisor.evaluate returns with decision BLOCK has an
\* empty response field, and the BLOCK result of AIClientManager.safe_completion
\* does not contain the original completion.
C3_BlockWithholdsResponse ==
    /\ (SupervisorEvaluateReturned /\ result.decision = "BLOCK")
          => result.audit_trail.response = <<>>
    /\ (SafeCompletionReturned /\ result.decision = "BLOCKED")
          => \A f \in DOMAIN result \cap {"completion", "original_completion"} :
                 result[f] # request.completion[1]


(***************************************************************************)
(* Properties of the entry points                                          *)
(***************************************************************************)
EntryPoints == {"safe_completion", "evaluate_safety_task", "evaluate_safety"}

\* an entry point has delivered the outcome of an evaluation that did not complete
EvaluationFailed ==
    /\ pc = "returned"
    /\ request.op \in EntryPoints
    /\ "error" \in DOMAIN result

\* C11: whenever an evaluation cannot complete, the outcome delivered through
\* evaluate_safety, evaluate_safety_task or safe_completion is a BLOCK or REVIEW
\* decision, never APPROVE and never a result without a decision.
C11_FailClosed ==
    EvaluationFailed => /\ "decision" \in DOMAIN result
                        /\ result.decision \in {"BLOCK", "REVIEW"}

(***************************************************************************)
(* Properties of the SafetySupervisor cache                                *)
(***************************************************************************)
\* the request about to be evaluated was evaluated before on this supervisor
\* and its result is still stored
EvaluatedBefore ==
    /\ pc = "called"
    /\ request.op = "SafetySupervisor.evaluate"
    /\ supervisor.redis_client
    /\ \E e \in redis_store :
          /\ e.key.content = generate_audit_id(request.request.query,
                                               request.request.response, 0).content
          /\ e.audit_trail.domain = request.request.domain

\* C12: with a cache, the second evaluation of one request on one
\* SafetySupervisor is a cache hit: it returns a stored result, with the audit_id
\* and the decision of the earlier call, and the rules do not run again (nothing
\* new is stored).
C12_SecondCallIsCacheHit ==
    [][EvaluatedBefore =>
          /\ \E e \in redis_store :
                /\ result'.audit_trail.audit_id = e.key
                /\ result'.decision = e.decision
          /\ redis_store' = redis_store]_vars

(***************************************************************************)
(* Properties of TextNormalizer.normalize                                  *)
(***************************************************************************)
NormalizeReturned == pc = "returned" /\ request.op = "TextNormalizer.normalize"

IsDigit(c) == c \in DigitSet
Digits(text) == SelectSeq(text, IsDigit)

\* C14: normalize never alters a digit: the digit characters of the output, in
\* order, are the digit characters of the input.
C14_DigitsPreserved ==
    NormalizeReturned => Digits(result.text) = Digits(request.text)

\* C15: normalize is idempotent: normalize(normalize(x)) = normalize(x) for
\* every input x (at the second call the argument is normalize(x)).
C15_NormalizeIdempotent ==
    (NormalizeReturned /\ request.calls = 2) => result.text = request.text

\* the second call has returned for an input the first call changed by a
\* capital, mapped characters, punctuation and surplus whitespace
C15_Witness ==
    /\ NormalizeReturned
    /\ request.calls = 2
    /\ request.input = <<"A", ".", " ">>
    /\ result.text = <<"a">>

(***************************************************************************)
(* Obfuscation                                                             *)
(***************************************************************************)
\* punctuation characters of the inputs
PunctuationSet == {"!", ".", ",", "-", "?"}

\* y is x written with one of the mapped substitutions
SubstitutedBy(y, x) ==
    \/ x = "a" /\ y = "@"
    \/ x = "i" /\ y = "!"
    \/ x = "s" /\ y = "$"
    \/ x = "e" /\ y = "3"

\* obfuscated is plain with some letters substituted and punctuation
\* characters added next to or inside its words
RECURSIVE Obfuscates(_, _)
Obfuscates(obfuscated, plain) ==
    IF obfuscated = <<>> THEN plain = <<>>
    ELSE \/ /\ Head(obfuscated) \in PunctuationSet
            /\ Obfuscates(Tail(obfuscated), plain)
         \/ /\ plain # <<>>
            /\ \/ Head(obfuscated) = Head(plain)
               \/ SubstitutedBy(Head(obfuscated), Head(plain))
            /\ Obfuscates(Tail(obfuscated), Tail(plain))

\* the call that has returned repeats the remembered call with obfuscated texts
ObfuscatedRepeat ==
    /\ pc = "returned"
    /\ request.op = "evaluate"
    /\ remembered # NoResult
    /\ request.domain = remembered.request.domain
    /\ Obfuscates(request.query, remembered.request.query)
    /\ Obfuscates(request.response, remembered.request.response)

\* C13: obfuscating the query or the response with the mapped substitutions or
\* with added punctuation changes neither the risk categories evaluate detects
\* nor its decision.
C13_ObfuscationInvariance ==
    ObfuscatedRepeat => /\ result.detected_risks = remembered.result.detected_risks
                        /\ result.decision = remembered.result.decision

(***************************************************************************)
(* Properties of the SafetySupervisor rules                                *)
(***************************************************************************)
\* SafetySupervisor.evaluate has returned to its caller
SupervisorReturned == pc = "returned" /\ request.op = "SafetySupervisor.evaluate"

default_rule(id) == base_rules[CHOOSE i \in DOMAIN base_rules : base_rules[i].id = id]

\* the pattern of the default rule finds a match in the text
RuleMatchesText(id, text) == finditer(default_rule(id).pattern, str_lower(text), 1) # <<>>

\* the text of a request that _check_rule searches
RequestText(req) == req.query \o <<"\n">> \o req.response

\* C16: a supervisor with the default rules BLOCKs every request whose text
\* matches LEGAL_001, whatever the request's domain is.
C16_IllegalActivityBlocksInEveryDomain ==
    (/\ SupervisorReturned
     /\ supervisor.enum_rules
     /\ RuleMatchesText("LEGAL_001", RequestText(request.request)))
        => result.decision = "BLOCK"

\* C17: a supervisor with the default rules returns BLOCK for every request of
\* the financial domain whose text matches FINANCIAL_001.
C17_FinancialScamBlocks ==
    (/\ SupervisorReturned
     /\ supervisor.enum_rules
     /\ request.request.domain = "financial"
     /\ RuleMatchesText("FINANCIAL_001", RequestText(request.request)))
        => result.decision = "BLOCK"

\* C18: a supervisor with the default rules returns APPROVE for a request of the
\* medical domain whose query matches EMERGENCY_001 and whose response tells the
\* user to call 911.
C18_EmergencyWithEscalationApproved ==
    (/\ SupervisorReturned
     /\ supervisor.enum_rules
     /\ request.request.domain = "medical"
     /\ RuleMatchesText("EMERGENCY_001", request.request.query)
     /\ contains(<<"c","a","l","l"," ","9","1","1">>, str_lower(request.request.response)))
        => result.decision = "APPROVE"

(***************************************************************************)
(* Properties of SafetySupervisor._make_decision                           *)
(***************************************************************************)
SupervisorDecided == pc = "returned" /\ request.op = "SafetySupervisor._make_decision"

\* the number of risk factors of the request at the level
FactorsAt(level) ==
    LET AtLevel(rf) == rf.risk_level = level
    IN Len(SelectSeq(request.risk_factors, AtLevel))

\* the first line of the priority table that applies
PriorityDecision ==
    CASE request.risk_factors = <<>> -> "APPROVE"
      [] request.risk_factors # <<>> /\ FactorsAt("CRITICAL") >= 1 -> "BLOCK"
      [] OTHER ->
           CASE FactorsAt("HIGH") >= 2 -> "BLOCK"
             [] FactorsAt("HIGH") = 1 /\ request.confidence < 50 -> "ESCALATE"
             [] OTHER ->
                  CASE FactorsAt("MEDIUM") >= 3 -> "ESCALATE"
                    [] FactorsAt("MEDIUM") < 3 /\ request.confidence < 30 -> "REVIEW"
                    [] OTHER -> "APPROVE"

\* C19: _make_decision follows one priority order for every list of risk
\* factors and every confidence: APPROVE for the empty list; else BLOCK with a
\* CRITICAL factor; else BLOCK with more than one HIGH factor; else ESCALATE
\* with a HIGH factor and confidence < 0.5; else ESCALATE with more than two
\* MEDIUM factors; else REVIEW with confidence < 0.3; else APPROVE.
C19_DecisionPriority == SupervisorDecided => result.decision = PriorityDecision

\* three MEDIUM factors at confidence 0.29: ESCALATE comes before REVIEW
C19_Witness ==
    /\ SupervisorDecided
    /\ FactorsAt("MEDIUM") = 3
    /\ request.confidence = 29
    /\ result.decision = "ESCALATE"

(***************************************************************************)
(* Properties of faulty rules                                              *)
(***************************************************************************)
SupervisorDecisions == {"APPROVE", "ESCALATE", "BLOCK", "REVIEW"}

\* the rule's pattern failed to compile when the supervisor was built
CompileFailed(rule) == "regex_error" \in DOMAIN rule

\* the rule's check raises for the request: the rule came from a rules file, its
\* pattern matches the text, and the RiskFactor's context asks the plain string
\* rule.domain for .value
CheckRaises(rule, req) ==
    /\ ~supervisor.enum_rules
    /\ ~CompileFailed(rule)
    /\ rule.domain \in {req.domain, "general"}
    /\ finditer(rule.pattern, str_lower(RequestText(req)), 1) # <<>>

FaultyRule(rule, req) == CompileFailed(rule) \/ CheckRaises(rule, req)

\* the supervisor as it is built when the rules faulty for the request are
\* absent from its rules
WithoutFaultyRules(req) ==
    LET Sound(rule) == ~FaultyRule(rule, req)
        remaining == SelectSeq(supervisor.rules, Sound)
    IN [supervisor EXCEPT !.rules = remaining,
                          !.compiled_patterns = init_pattern_matchers(remaining)]

SomeRuleFaulty ==
    /\ SupervisorReturned
    /\ \E i \in DOMAIN supervisor.rules : FaultyRule(supervisor.rules[i], request.request)

RepeatsGeneralCall ==
    /\ EvalReturned
    /\ remembered # NoResult
    /\ remembered.request.domain = "general"
    /\ remembered.request.query = request.query
    /\ remembered.request.response = request.response

\* C21: evaluate called with a domain without a profile (legal, education, any
\* string other than medical, financial, general) returns a result, and exactly
\* the result it returns under domain general for the same query and response.
C21_UnknownDomainIsGeneral ==
    /\ (EvalReturned /\ request.domain \notin {"medical", "financial", "general"})
          => result.decision \in Decision
    /\ (RepeatsGeneralCall /\ request.domain \notin {"medical", "financial", "general"})
          => result = remembered.result

\* an education request with a detected risk, after the same texts under general
C21_Witness ==
    /\ RepeatsGeneralCall
    /\ request.domain = "education"
    /\ result.detected_risks # {}
    /\ result.decision = "BLOCK"

(***************************************************************************)
(* Properties of concurrent evaluations                                    *)
(***************************************************************************)
GatherReturned == pc = "returned" /\ request.op = "gather"

\* what a risk factor says, as an object or as the dict of a cached result
FactorContent(rf) ==
    [rule_id |-> rf.rule_id, risk_level |-> rf.risk_level,
     confidence |-> rf.confidence, evidence |-> rf.evidence]
FactorContents(rfs) == [k \in DOMAIN rfs |-> FactorContent(rfs[k])]

\* the results the call gives when it runs alone, at the same time, on the
\* supervisor with the cache as it was when the calls were started
AloneResults(call) ==
    {o.returned : o \in supervisor_evaluate(supervisor, request.store, call.request,
                                            call.audit_id[1].now)}

\* C22: under every interleaving of the steps of concurrent evaluate calls on
\* one supervisor, each call completes and returns the decision and the risk
\* factors it returns when it runs alone.
C22_ConcurrentCallsIndependent ==
    GatherReturned =>
        \A i \in DOMAIN request.calls :
            \E alone \in AloneResults(request.calls[i]) :
                /\ result.results[i].decision = alone.decision
                /\ FactorContents(result.results[i].audit_trail.risk_factors)
                      = FactorContents(alone.audit_trail.risk_factors)

(***************************************************************************)
(* Properties of SafetyEngine._calculate_risk                              *)
(***************************************************************************)
RiskCalculated == pc = "returned" /\ request.op = "_calculate_risk"

\* the configured patterns that match the query or the response of the request
MatchedPatterns ==
    {i \in DOMAIN engine.risk_patterns :
        \/ re_search(engine.risk_patterns[i].alts, request.query)
        \/ re_search(engine.risk_patterns[i].alts, request.response)}

\* C23: the score _calculate_risk returns is 1 minus the product, over the
\* patterns matching the query or the response, each counted once, of
\* 1 - min(weight * multiplier, 0.99); it is 0 when nothing matches and at most
\* 0.99 when exactly one pattern matches.
C23_NoisyOr ==
    RiskCalculated =>
        /\ result.risk_score =
              ScoreOfComplement(ComplementProduct(MatchedPatterns,
                                                  engine.domain_profiles[request.domain]))
        /\ MatchedPatterns = {} => result.risk_score = ScoreOfHundredths(0)
        /\ Cardinality(MatchedPatterns) = 1 => DecLE(Dec(1, 2), result.risk_score.comp)

\* two patterns match in the medical domain, one of them with weight 1.0 in
\* both texts: the score is 1 - 0.04 * 0.01
C23_Witness ==
    /\ RiskCalculated
    /\ request.domain = "medical"
    /\ request.query = <<"c","h","e","s","t"," ","p","a","i","n">>
    /\ request.response = <<"h","e","a","r","t"," ","a","t","t","a","c","k">>
    /\ result.risk_score.comp = Dec(4, 4)

\* analyze has returned
AnalyzeReturned == pc = "returned" /\ request.op = "analyze"

\* the hard-negation patterns found in the lower-cased text of the request
MatchedNegations ==
    {i \in DOMAIN context_engine.hard_negations :
        re_search(context_engine.hard_negations[i].alts, str_lower(request.text))}

\* C24: for a text matching a hard-negation pattern, analyze returns
\* is_emergency false, confidence 0, time_frame 'unknown' and a modifiers list
\* holding exactly one tag, the negation tag of the first matching pattern of
\* the list, and so no aggravator or mitigator tag.
C24_HardNegationShortCircuit ==
    (AnalyzeReturned /\ MatchedNegations # {})
    => /\ result.is_emergency = FALSE
       /\ result.confidence = 0
       /\ result.time_frame = "unknown"
       /\ \E i \in MatchedNegations :
             /\ \A j \in MatchedNegations : i <= j
             /\ result.modifiers = << <<"negation", context_engine.hard_negations[i].regex>> >>

\* an aggravator, then 'just curious', then 'No chest pain': the one tag is
\* that of the first pattern of the list, which comes last in the text
C24_Witness ==
    /\ AnalyzeReturned
    /\ request.text = <<"s","e","v","e","r","e"," ","j","u","s","t"," ","c","u","r","i","o","u","s"," ","N","o"," ","c","h","e","s","t"," ","p","a","i","n">>
    /\ MatchedNegations = {1, 4}
    /\ result.modifiers = << <<"negation", "\\bno (chest )?pain\\b">> >>

(***************************************************************************)
(* Properties of the counterfactual of an evaluation                       *)
(***************************************************************************)
\* the highest risk level among the risk factors
HighestRiskLevel(rfs) ==
    CHOOSE level \in {rfs[k].risk_level : k \in DOMAIN rfs} :
        \A k \in DOMAIN rfs : RiskLevelIndex(rfs[k].risk_level) <= RiskLevelIndex(level)

\* the template for (domain, level): the general-domain templates for a domain
\* without its own, the HIGH template for a level without its own
TemplateFor(domain, level) ==
    LET d == IF domain \in {"medical", "financial"} THEN domain ELSE "general"
        l == IF level = "CRITICAL" THEN "CRITICAL" ELSE "HIGH"
    IN counterfactual_templates[d][l]

\* the counterfactual of a returned audit trail is as the request asks
CounterfactualFor(req, returned) ==
    LET trail == returned.audit_trail
    IN /\ trail.counterfactual # None <=> returned.decision \in {"BLOCK", "ESCALATE"}
       /\ (trail.counterfactual # None /\ trail.risk_factors # <<>>)
             => trail.counterfactual
                   = Some(TemplateFor(req.domain, HighestRiskLevel(trail.risk_factors)))

\* C25: the audit trail evaluate returns has a counterfactual exactly when the
\* decision is BLOCK or ESCALATE, and the text is the template for the domain
\* of the request and the highest risk level among the risk factors, with the
\* general-domain and HIGH templates as fallbacks.
C25_CounterfactualTemplate ==
    GatherReturned =>
        \A i \in DOMAIN request.calls :
            CounterfactualFor(request.calls[i].request, result.results[i])

(***************************************************************************)
(* Properties of ConfidenceScorer                                          *)
(***************************************************************************)
ScorerReturned == pc = "returned" /\ request.op = "ConfidenceScorer"

\* the occurrences of hedging words in the lower-cased response
HedgingOccurrences ==
    SumSeq([k \in DOMAIN guardian.hedging_words |->
               str_count(guardian.hedging_words[k], str_lower(request.response))])

\* C26: calculate returns 0.95 less 0.1 for each occurrence of a hedging word,
\* clamped to [0, 1], and the reduction explain reports for the same response
\* is the reduction calculate applied.
C26_PenaltyAttributed ==
    ScorerReturned =>
        /\ result.score = Max(0, Min(1000, 950 - 100 * HedgingOccurrences))
        /\ result.explain.reduction = 100 * HedgingOccurrences

(***************************************************************************)
(* Properties of the context override of SafetyEngine.evaluate             *)
(***************************************************************************)
\* some pattern of the list matches the normalised query
QueryMatchesSome(patterns) ==
    \E i \in DOMAIN patterns : re_search(patterns[i].alts, normalize(request.query))

\* evaluate has returned for a request whose domain does not resolve to medical
ReturnedOutsideMedical ==
    EvalReturned /\ effective_domain(engine, request.domain) # "medical"

\* C27: outside the medical domain, MEDICAL_EMERGENCY is removed from the
\* detected risks only when the query matched a hard-negation or a mitigator
\* pattern; a query matching a MEDICAL_EMERGENCY pattern and no context
\* modifier keeps the category and is blocked when the response has no
\* mitigation phrase.
C27_OverrideNeedsModifier ==
    ReturnedOutsideMedical =>
        LET f == RequestFacts
            removed == "MEDICAL_EMERGENCY" \in f.categories
                          /\ "MEDICAL_EMERGENCY" \notin result.detected_risks
            emergency_in_query ==
                \E i \in DOMAIN engine.risk_patterns :
                    /\ engine.risk_patterns[i].category = "MEDICAL_EMERGENCY"
                    /\ re_search(engine.risk_patterns[i].alts, normalize(request.query))
            no_modifier == /\ ~QueryMatchesSome(context_engine.hard_negations)
                           /\ ~QueryMatchesSome(context_engine.mitigators)
                           /\ ~QueryMatchesSome(context_engine.aggravators)
        IN /\ removed => \/ QueryMatchesSome(context_engine.hard_negations)
                         \/ QueryMatchesSome(context_engine.mitigators)
           /\ (emergency_in_query /\ no_modifier)
                 => /\ "MEDICAL_EMERGENCY" \in result.detected_risks
                    /\ ~f.mitigation => result.decision = "BLOCK"

(***************************************************************************)
(* Properties comparing two calls of SafetyEngine.evaluate                 *)
(***************************************************************************)
\* APPROVE < ESCALATE < BLOCK
Strictness(decision) ==
    CASE decision = "APPROVE" -> 0 [] decision = "ESCALATE" -> 1 [] decision = "BLOCK" -> 2

\* the patterns of the engine that match the normalised texts of a request
PatternsMatching(req) ==
    {i \in DOMAIN engine.risk_patterns :
        \/ re_search(engine.risk_patterns[i].alts, normalize(req.query))
        \/ re_search(engine.risk_patterns[i].alts, normalize(req.response))}

EmergencyPatterns ==
    {i \in DOMAIN engine.risk_patterns : engine.risk_patterns[i].category = "MEDICAL_EMERGENCY"}

\* the returned call had MEDICAL_EMERGENCY removed by the context override, and
\* the remembered call is the same request but for the emergency match: same
\* domain and response, the same other patterns matched, no emergency pattern
OverriddenAfterPlainCall ==
    /\ ReturnedOutsideMedical
    /\ PatternsMatching(request) \cap EmergencyPatterns # {}
    /\ "MEDICAL_EMERGENCY" \notin result.detected_risks
    /\ remembered # NoResult
    /\ remembered.request.domain = request.domain
    /\ remembered.request.response = request.response
    /\ PatternsMatching(remembered.request) = PatternsMatching(request) \ EmergencyPatterns

\* C28: outside the medical domain, a request whose MEDICAL_EMERGENCY match is
\* removed by the context override is decided no more leniently than the same
\* request without any MEDICAL_EMERGENCY match: the other matched patterns keep
\* their contribution to the score.
C28_OverrideKeepsOtherRisks ==
    OverriddenAfterPlainCall =>
        /\ Strictness(result.decision) >= Strictness(remembered.result.decision)
        /\ result.risk_score >= remembered.result.risk_score

\* C30: for the same query and response, the decision under domain medical or
\* financial is never more lenient, in the order APPROVE < ESCALATE < BLOCK,
\* than the decision under domain general.
C30_StricterThanGeneral ==
    (RepeatsGeneralCall /\ request.domain \in {"medical", "financial"})
        => Strictness(result.decision) >= Strictness(remembered.result.decision)

\* a negated emergency, blocked under medical and approved under general
C30_Witness ==
    /\ RepeatsGeneralCall
    /\ request.domain = "medical"
    /\ request.query = <<"n","o"," ","c","h","e","s","t"," ","p","a","i","n">>
    /\ result.decision = "BLOCK"
    /\ remembered.result.decision = "APPROVE"

(***************************************************************************)
(* Properties of RateLimiter                                               *)
(***************************************************************************)
\* the requests of the client admitted since the last expiry of its counter
\* key: each admission adds one to the key in the pipeline that precedes
\* `return False`, and nothing but the expiry takes the key away
AdmittedSinceExpiry(client_id) ==
    LET current == redis_get(redis_store, rate_limit_key(client_id))
    IN IF current = None THEN 0 ELSE current[1]

\* C29: under every interleaving of the concurrent requests of a client,
\* is_rate_limited admits at most requests_per_minute requests of the client
\* between two expiries of its counter key.
C29_AtMostLimitAdmitted ==
    \A c \in ClientIds : AdmittedSinceExpiry(c) <= rate_limiter.requests_per_minute
====
